---- MODULE Spec2Model ----
(***************************************************************************)
(* agent-teamchat: the cycle/rate limiter (TeamChatState), the per-room    *)
(* message cache (MessageCache), the task board (TaskBoard), the relay to  *)
(* agent sessions and the file lock (withFileLock), each as a state        *)
(* machine over the state the code keeps in memory or on disk.             *)
(*                                                                         *)
(* The components own disjoint state, so each is checked under its own     *)
(* specification (SpecCycle, SpecCache, SpecTask, SpecRelay, SpecLock);    *)
(* Spec is their interleaving.                                             *)
(***************************************************************************)
EXTENDS Integers, Sequences, FiniteSets, TLC

VARIABLES
    clock,          \* Date.now(), in ms
    roomConfig,     \* the room's normalized configuration
    cycles,         \* TeamChatState.cycles: roomId -> cycle
    ret,            \* the last call: its name, arguments and returned value
    lastRegisterAt, \* history: time of the room's previous registerInboundExternal (0: none)
    okTurns,        \* history: tryConsumeTurn calls that returned ok since the counters were last zeroed
    cfgFixed,       \* history: roomConfig has not changed since the counters were last zeroed
    log,            \* rooms/<roomId>/messages.jsonl: the records, one per line
    watermarks,     \* rooms/<roomId>/watermarks.json: agentId -> {lastReadId, lastReadTs}
    seqCounter,     \* _seqCounter of the message-id generator
    activeFiles,    \* rooms/<roomId>/tasks/active: file name -> task
    historyFiles,   \* rooms/<roomId>/tasks/history: file name -> closed task
    board,          \* rooms/<roomId>/tasks/board.json, its tasks: taskId -> {status}
    ioFailures,     \* history: task-board calls in which a writeJsonAtomic failed
    enqueued,       \* system events handed to api.runtime.system.enqueueSystemEvent: their session keys
    lockFile,       \* the lock's marker file: absent ({}) or its one record {mtime, owner}
    procs,          \* each process calling withFileLock: where it is in the call
    overran,        \* history: a live caller has held the marker for longer than LOCK_STALE_MS
    activeTaskByRoom,   \* TeamChatState.activeTaskByRoom: roomId -> the room's one legacy task
    closedCountByRoom,  \* TeamChatState.closedCountByRoom: roomId -> tasks archived
    compacting,     \* a cleanup between its read and its rewrite: what it will write, or {}
    outgoingByRoom  \* TeamChatState.outgoingByRoom, the room's list: {hash, text, agentId, ts}

cycleVars == <<roomConfig, cycles, lastRegisterAt, okTurns, cfgFixed>>
cacheVars == <<log, watermarks, seqCounter>>
taskVars == <<activeFiles, historyFiles, board, ioFailures>>
relayVars == <<enqueued>>
lockVars == <<lockFile, procs, overran>>
legacyVars == <<activeTaskByRoom, closedCountByRoom>>
compactVars == <<compacting>>
inboundVars == <<outgoingByRoom>>
otherVars == <<legacyVars, compactVars, inboundVars>>
vars == <<clock, ret, cycleVars, cacheVars, taskVars, relayVars, lockVars, otherVars>>

(***************************************************************************)
(* Bounds of the model and constants of the program.                       *)
(***************************************************************************)
TickMs == 4000              \* granularity of the limiter's clock
MaxNow == 36000             \* the limiter's clock stops here
MaxTurnsCfg == 2            \* maxTurnsPerCycle ranges over 1..MaxTurnsCfg

CacheTickMs == 1000         \* granularity of the cache's clock
MaxCacheNow == 5000         \* the cache's clock stops here
MaxLog == 2                 \* appendMessage is not called on a log this long
MaxSeq == 1                 \* ids generated in one run

TaskTickMs == 1000          \* granularity of the task board's clock
MaxTaskNow == 5000          \* the task board's clock stops here

HistoryMaxEntries == 4      \* as MaxEntries, where a task is closed twice
FanOutMaxMessages == 1      \* inbound messages fanned out in one run
CapsMaxRounds == 103        \* rounds of the slot that is signalled again and again

MaxOutgoing == 1            \* recordOutgoing is not called on a list this long
MaxInboundNow == 16000      \* the inbound hook's clock stops here
EchoWindowSeconds == 10     \* the room's outgoingEchoWindowSeconds, its least value
MaxIoFailures == 1          \* task-board calls in which a write fails
MaxEntries == 3             \* the task board is not called once its files hold this many globalHistory entries
CleanupTtlSeconds == 1      \* MessageCache option cleanupTtlSeconds
CompactThreshold == 2       \* MessageCache option compactThreshold
MaxActiveTasks == 2         \* TaskBoard option maxActiveTasks
MaxMembers == 2             \* a room's memberAgents has at most this many entries
MaxMentions == 3            \* mentionedAgents has at most this many entries
MaxEnqueued == 1            \* the relay is not called once this many system events are queued

MaxClosed == 1              \* applyTaskSignal is not called for a room once it archived this many tasks
MaxLegacyHistory == 2       \* nor for the room's active task once it has this many history entries
LockTickMs == 6000          \* granularity of the lock's clock
MaxLockNow == 22000         \* the lock's clock stops here

DEBOUNCE_MS == 5000
LOCK_STALE_MS == 10000
LOCK_RETRIES == 40
MinCycleTtlSeconds == 30
SeqModulus == 100000
SlotHistoryKeep == 19
GlobalHistoryKeep == 99
DefaultMaxMessages == 50
DefaultMaxChars == 8000

Room == "R1"

(***************************************************************************)
(* Maps (JS Map / object): a function whose domain is the set of keys.     *)
(***************************************************************************)
EmptyMap == [k \in {} |-> TRUE]

PutOverwriteAll(m, k, v) == [x \in DOMAIN m \cup {k} |-> v]

Put(m, k, v) == [x \in DOMAIN m \cup {k} |-> IF x = k THEN v ELSE m[x]]

Del(m, k) == [x \in DOMAIN m \ {k} |-> m[x]]

(***************************************************************************)
(* Room configuration as normalizeRoomConfig leaves it.  A null            *)
(* autopilot.maxDispatchPerCycle is the empty set, a number n is {n}.      *)
(***************************************************************************)
RoomConfigs ==
    [maxTurnsPerCycle : 1..MaxTurnsCfg,
     cycleTtlSeconds : {MinCycleTtlSeconds},
     maxDispatchPerCycle : {{}, {1}}]

(***************************************************************************)
(* TeamChatState.getCycle: the cycle the call works on, and whether it was *)
(* allocated fresh.                                                        *)
(***************************************************************************)
CycleExpired(cfg, now) ==
    \/ Room \notin DOMAIN cycles
    \/ now - cycles[Room].createdAt > cfg.cycleTtlSeconds * 1000

GetCycleKeepsLimits(cfg, now) ==
    IF CycleExpired(cfg, now)
    THEN [turnsUsed |-> 0, dispatchCount |-> 0, maxTurns |-> cfg.maxTurnsPerCycle,
          maxDispatch |-> IF cfg.maxDispatchPerCycle = {}
                          THEN cfg.maxTurnsPerCycle
                          ELSE CHOOSE n \in cfg.maxDispatchPerCycle : TRUE,
          ttlMs |-> cfg.cycleTtlSeconds * 1000, createdAt |-> now,
          lastInboundAt |-> 0, lastActivityAt |-> now]
    ELSE cycles[Room]

getCycle(cfg, now) ==
    LET ttlMs == cfg.cycleTtlSeconds * 1000
        maxTurns == cfg.maxTurnsPerCycle
        maxDispatch == IF cfg.maxDispatchPerCycle = {}
                       THEN maxTurns
                       ELSE CHOOSE n \in cfg.maxDispatchPerCycle : TRUE
    IN  IF CycleExpired(cfg, now)
        THEN [turnsUsed |-> 0, dispatchCount |-> 0, maxTurns |-> maxTurns,
              maxDispatch |-> maxDispatch, ttlMs |-> ttlMs, createdAt |-> now,
              lastInboundAt |-> 0, lastActivityAt |-> now]
        ELSE [cycles[Room] EXCEPT !.maxTurns = maxTurns,
                                  !.maxDispatch = maxDispatch,
                                  !.ttlMs = ttlMs]

(***************************************************************************)
(* TeamChatState.registerInboundExternal                                   *)
(***************************************************************************)
ShouldResetAlways(cycle, now) == TRUE

ShouldResetFirstOnly(cycle, now) == cycle.lastInboundAt = 0

shouldReset(cycle, now) ==
    cycle.lastInboundAt = 0 \/ now - cycle.lastInboundAt >= DEBOUNCE_MS

registerInboundExternal ==
    LET now == clock
        had == Room \in DOMAIN cycles
        fresh == CycleExpired(roomConfig, now)
        cycle == getCycle(roomConfig, now)
        reset == shouldReset(cycle, now)
        after == [cycle EXCEPT
                    !.turnsUsed = IF reset THEN 0 ELSE @,
                    !.dispatchCount = IF reset THEN 0 ELSE @,
                    !.lastInboundAt = now,
                    !.lastActivityAt = now]
        \* the call came less than DEBOUNCE_MS after the room's previous one
        short == lastRegisterAt > 0 /\ now - lastRegisterAt < DEBOUNCE_MS
    IN  /\ cycles' = Put(cycles, Room, after)
        /\ ret' = [op |-> "registerInboundExternal",
                   short |-> short,
                   \* the stored cycle is the one that recorded the previous call
                   recorded |-> had /\ cycles[Room].lastInboundAt = lastRegisterAt,
                   \* ... and it is still live: getCycle did not replace it
                   sameCycle |-> ~fresh /\ cycle.lastInboundAt = lastRegisterAt,
                   \* the call came more than DEBOUNCE_MS after the room's previous one
                   gapExceeded |-> lastRegisterAt > 0 /\ now - lastRegisterAt > DEBOUNCE_MS,
                   \* the cycle the call works on has recorded no previous call
                   noPrevious |-> cycle.lastInboundAt = 0,
                   \* the counters the call found are the counters it left
                   kept |-> had => /\ after.turnsUsed = cycles[Room].turnsUsed
                                   /\ after.dispatchCount = cycles[Room].dispatchCount,
                   \* a tryConsumeTurn just before the call would have failed
                   wasExhausted |-> had /\ ~fresh /\ cycle.turnsUsed >= cycle.maxTurns]
        /\ lastRegisterAt' = now
        /\ okTurns' = IF fresh \/ reset THEN 0 ELSE okTurns
        /\ cfgFixed' = IF fresh \/ reset THEN TRUE ELSE cfgFixed
        /\ UNCHANGED <<clock, roomConfig, cacheVars, taskVars, relayVars, lockVars, otherVars>>

(***************************************************************************)
(* TeamChatState.tryConsumeTurn                                            *)
(***************************************************************************)
TurnsExhaustedOffByOne(cycle) == cycle.turnsUsed > cycle.maxTurns

TurnsExhausted(cycle) == cycle.turnsUsed >= cycle.maxTurns

tryConsumeTurn ==
    LET now == clock
        fresh == CycleExpired(roomConfig, now)
        cycle == getCycle(roomConfig, now)
        okBefore == IF fresh THEN 0 ELSE okTurns
        fixedBefore == IF fresh THEN TRUE ELSE cfgFixed
    IN  /\ IF TurnsExhausted(cycle)
           THEN /\ cycles' = Put(cycles, Room, cycle)
                /\ ret' = [op |-> "tryConsumeTurn", ok |-> FALSE,
                           turnsUsed |-> cycle.turnsUsed, maxTurns |-> cycle.maxTurns,
                           preTurnsUsed |-> cycle.turnsUsed]
                /\ okTurns' = okBefore
           ELSE /\ cycles' = Put(cycles, Room,
                        [cycle EXCEPT !.turnsUsed = @ + 1, !.lastActivityAt = now])
                /\ ret' = [op |-> "tryConsumeTurn", ok |-> TRUE,
                           turnsUsed |-> cycle.turnsUsed + 1, maxTurns |-> cycle.maxTurns,
                           preTurnsUsed |-> cycle.turnsUsed]
                /\ okTurns' = okBefore + 1
        /\ cfgFixed' = fixedBefore
        /\ UNCHANGED <<clock, roomConfig, lastRegisterAt, cacheVars, taskVars, relayVars, lockVars, otherVars>>

(***************************************************************************)
(* TeamChatState.tryConsumeDispatch                                        *)
(***************************************************************************)
tryConsumeDispatch ==
    LET now == clock
        fresh == CycleExpired(roomConfig, now)
        cycle == getCycle(roomConfig, now)
    IN  /\ IF cycle.dispatchCount >= cycle.maxDispatch
           THEN /\ cycles' = Put(cycles, Room, cycle)
                /\ ret' = [op |-> "tryConsumeDispatch", ok |-> FALSE,
                           dispatchCount |-> cycle.dispatchCount,
                           maxDispatch |-> cycle.maxDispatch]
           ELSE /\ cycles' = Put(cycles, Room,
                        [cycle EXCEPT !.dispatchCount = @ + 1, !.lastActivityAt = now])
                /\ ret' = [op |-> "tryConsumeDispatch", ok |-> TRUE,
                           dispatchCount |-> cycle.dispatchCount + 1,
                           maxDispatch |-> cycle.maxDispatch]
        /\ okTurns' = IF fresh THEN 0 ELSE okTurns
        /\ cfgFixed' = IF fresh THEN TRUE ELSE cfgFixed
        /\ UNCHANGED <<clock, roomConfig, lastRegisterAt, cacheVars, taskVars, relayVars, lockVars, otherVars>>

(***************************************************************************)
(* TeamChatState.resetCycle                                                *)
(***************************************************************************)
resetCycle ==
    /\ Room \in DOMAIN cycles
    /\ cycles' = Del(cycles, Room)
    /\ ret' = [op |-> "resetCycle"]
    /\ okTurns' = 0
    /\ cfgFixed' = TRUE
    /\ UNCHANGED <<clock, roomConfig, lastRegisterAt, cacheVars, taskVars, relayVars, lockVars, otherVars>>

(***************************************************************************)
(* The environment of the limiter: time passes, and the host may hand the  *)
(* next calls another configuration for the room.                          *)
(***************************************************************************)
CycleTick ==
    /\ clock + TickMs <= MaxNow
    /\ clock' = clock + TickMs
    /\ UNCHANGED <<ret, cycleVars, cacheVars, taskVars, relayVars, lockVars, otherVars>>

Reconfigure ==
    /\ \E cfg \in RoomConfigs \ {roomConfig} : roomConfig' = cfg
    /\ cfgFixed' = FALSE
    /\ ret' = [op |-> "reconfigure"]
    /\ UNCHANGED <<clock, cycles, lastRegisterAt, okTurns, cacheVars, taskVars, relayVars, lockVars, otherVars>>

(***************************************************************************)
(* MessageCache.  A message is the record appendMessage writes; of its     *)
(* fields the model keeps id, ts, sourceAgent and content (sender,         *)
(* senderId, mentions and type are stored and never read by the            *)
(* operations below).  Text is a sequence of pieces, so that includes() is *)
(* a search and not a flag.                                                *)
(***************************************************************************)
Agents == {"main", "builder"}

SourceAgents == {"", "builder"}

SuppliedIds == {"", "a"}

RandSuffixes == {"k3x9"}

Contents ==
    { <<"hello">>,
      <<"see ", "[UNTRUSTED", " DATA", " - begin]">>,
      <<"<relevant-memories>", "hello">> }

\* String.prototype.includes
includes(text, part) ==
    \E i \in 1..(Len(text) - Len(part) + 1) :
        SubSeq(text, i, i + Len(part) - 1) = part

IsInjectionFirstMarkerOnly(rawContent) ==
    includes(rawContent, <<"[UNTRUSTED", " DATA">>)

IsInjection(rawContent) ==
    \/ includes(rawContent, <<"[UNTRUSTED", " DATA">>)
    \/ includes(rawContent, <<"<relevant-memories>">>)

\* String(n).padStart(5, "0")
padStart5(n) ==
    IF n < 10 THEN "0000" \o ToString(n)
    ELSE IF n < 100 THEN "000" \o ToString(n)
    ELSE IF n < 1000 THEN "00" \o ToString(n)
    ELSE IF n < 10000 THEN "0" \o ToString(n)
    ELSE ToString(n)

\* generateMessageId, given the counter after its increment
generateMessageId(ts, seq, rand) ==
    "m_" \o ToString(ts) \o "_" \o padStart5(seq) \o "_" \o rand

\* Array.prototype.findIndex, given the test's result for each element:
\* 0-based, -1 when no element passes
findIndex(passes) ==
    IF \E i \in DOMAIN passes : passes[i]
    THEN (CHOOSE i \in DOMAIN passes :
            passes[i] /\ \A j \in 1..(i - 1) : ~passes[j]) - 1
    ELSE -1

\* Array.prototype.slice(start), start 0-based
slice(seq, start) == SubSeq(seq, start + 1, Len(seq))

readAllMessages == log

Messages(seq) == {seq[i] : i \in 1..Len(seq)}

(***************************************************************************)
(* MessageCache.appendMessage.  ioOk: the write lock was acquired and      *)
(* appendFileSync did not throw.                                           *)
(***************************************************************************)
appendMessageTo(maxLen) ==
    \E content \in Contents :
        LET rawContent == content
        IN  IF IsInjection(rawContent)
            THEN /\ ret' = [op |-> "appendMessage", content |-> content,
                            isNull |-> TRUE]
                 /\ UNCHANGED <<clock, cycleVars, cacheVars, taskVars, relayVars, lockVars, otherVars>>
            ELSE \E idIn \in SuppliedIds, tsIn \in {0, clock - CacheTickMs},
                    sourceAgent \in SourceAgents, rand \in RandSuffixes,
                    ioOk \in BOOLEAN :
                    LET ts == IF tsIn # 0 THEN tsIn ELSE clock
                        seq == (seqCounter + 1) % SeqModulus
                        record == [id |-> IF idIn # "" THEN idIn
                                          ELSE generateMessageId(ts, seq, rand),
                                   ts |-> ts,
                                   sourceAgent |-> sourceAgent,
                                   content |-> content]
                    IN  /\ Len(log) < maxLen
                        /\ idIn = "" => seqCounter < MaxSeq
                        /\ seqCounter' = IF idIn = "" THEN seq ELSE seqCounter
                        /\ log' = IF ioOk THEN Append(log, record) ELSE log
                        \* the record is returned whether or not it was written
                        /\ ret' = [op |-> "appendMessage", content |-> content,
                                   isNull |-> FALSE, ioOk |-> ioOk,
                                   preLen |-> Len(log), id |-> record.id]
                        /\ UNCHANGED <<clock, cycleVars, watermarks, taskVars, relayVars, lockVars, otherVars>>

appendMessage == appendMessageTo(MaxLog)

(***************************************************************************)
(* MessageCache.getUnreadMessages                                          *)
(***************************************************************************)
lastReadTsOf(agentId) ==
    IF agentId \in DOMAIN watermarks THEN watermarks[agentId].lastReadTs ELSE 0

lastReadIdOf(agentId) ==
    IF agentId \in DOMAIN watermarks THEN watermarks[agentId].lastReadId ELSE ""

startIdx(agentId) ==
    LET allMessages == readAllMessages
        lastReadTs == lastReadTsOf(agentId)
        lastReadId == lastReadIdOf(agentId)
        idx == findIndex([i \in DOMAIN allMessages |-> allMessages[i].id = lastReadId])
        byTs == findIndex([i \in DOMAIN allMessages |-> allMessages[i].ts > lastReadTs])
        tsIdx == IF byTs < 0 THEN Len(allMessages) ELSE byTs
    IN  IF lastReadId # ""
        THEN IF idx >= 0 THEN idx + 1
             ELSE IF lastReadTs > 0 THEN tsIdx ELSE 0
        ELSE IF lastReadTs > 0 THEN tsIdx ELSE 0

UnreadWithOwn(agentId) ==
    IF agentId = "" THEN << >>
    ELSE slice(readAllMessages, startIdx(agentId))

getUnreadMessages(agentId) ==
    IF agentId = "" THEN << >>
    ELSE SelectSeq(slice(readAllMessages, startIdx(agentId)),
                   LAMBDA m : m.sourceAgent # agentId)

(***************************************************************************)
(* MessageCache.markAsRead.  The caller passes the id and ts of message k  *)
(* of the log, or no id and a ts (0: none, the code takes Date.now()).     *)
(* When the watermark lock is not acquired or the write fails the call     *)
(* changes nothing and returns nothing: a stuttering step.                 *)
(***************************************************************************)
markAsRead ==
    \E agentId \in Agents, k \in 0..Len(log),
       tsIn \in {0} \cup {log[i].ts : i \in 1..Len(log)} :
        LET upToMessageId == IF k > 0 THEN log[k].id ELSE ""
            upToTs == IF k > 0 THEN log[k].ts ELSE tsIn
            entry == [lastReadId |-> IF upToMessageId # "" THEN upToMessageId
                                     ELSE lastReadIdOf(agentId),
                      lastReadTs |-> IF upToTs # 0 THEN upToTs ELSE clock]
        IN  /\ k > 0 => tsIn = 0
            /\ watermarks' = Put(watermarks, agentId, entry)
            /\ ret' = [op |-> "markAsRead", agentId |-> agentId, k |-> k]
            /\ UNCHANGED <<clock, cycleVars, log, seqCounter, taskVars, relayVars, lockVars, otherVars>>

(***************************************************************************)
(* MessageCache.cleanup.  When the compact lock is not acquired the log is *)
(* left as it is, as when cleanup returns early.                           *)
(***************************************************************************)
Min(S) == CHOOSE x \in S : \A y \in S : x <= y

Max(a, b) == IF a >= b THEN a ELSE b

MinReadTsOfReaders(memberAgents) ==
    LET readers == {a \in memberAgents : a \in DOMAIN watermarks /\ watermarks[a].lastReadTs # 0}
    IN  IF readers = {} THEN 0 ELSE Min({watermarks[a].lastReadTs : a \in readers})

\* minReadTs of cleanup: 0 when a member has no watermark or a zero lastReadTs
minReadTs(memberAgents) ==
    IF \E a \in memberAgents : a \notin DOMAIN watermarks \/ watermarks[a].lastReadTs = 0
    THEN 0
    ELSE Min({watermarks[a].lastReadTs : a \in memberAgents})

keepThreshold(memberAgents, now) ==
    Max(minReadTs(memberAgents), now - CleanupTtlSeconds * 1000)

cleanup ==
    \E memberAgents \in SUBSET Agents, ioOk \in BOOLEAN :
        LET allMessages == readAllMessages
            now == clock
            kept == SelectSeq(allMessages,
                              LAMBDA m : m.ts > keepThreshold(memberAgents, now))
            skip == \/ memberAgents = {}
                    \/ Len(allMessages) < CompactThreshold
                    \/ minReadTs(memberAgents) = 0
                    \/ Len(kept) = Len(allMessages)
            after == IF skip \/ ~ioOk THEN log ELSE kept
        IN  /\ log' = after
            /\ ret' = [op |-> "cleanup", memberAgents |-> memberAgents,
                       removedTs |-> {allMessages[i].ts : i \in
                            {j \in 1..Len(allMessages) :
                                allMessages[j] \notin Messages(after)}}]
            /\ UNCHANGED <<clock, cycleVars, watermarks, seqCounter, taskVars, relayVars, lockVars, otherVars>>

(***************************************************************************)
(* MessageCache.cleanup run by one process while another appends: its read *)
(* of the log (outside any lock) and its rewrite (under the "compact"      *)
(* lock) are two steps; appendMessage takes the "write" lock, another      *)
(* file, so nothing keeps it from running between the two.                 *)
(***************************************************************************)
cleanupRead ==
    /\ compacting = {}
    /\ \E memberAgents \in SUBSET Agents :
        LET allMessages == readAllMessages
            now == clock
            kept == SelectSeq(allMessages,
                              LAMBDA m : m.ts > keepThreshold(memberAgents, now))
            skip == \/ memberAgents = {}
                    \/ Len(allMessages) < CompactThreshold
                    \/ minReadTs(memberAgents) = 0
                    \/ Len(kept) = Len(allMessages)
        IN  /\ ~skip
            /\ compacting' = {[kept |-> kept,
                               keepThreshold |-> keepThreshold(memberAgents, now)]}
    /\ UNCHANGED <<clock, ret, cycleVars, cacheVars, taskVars, relayVars, lockVars, legacyVars,
                   inboundVars>>

cleanupRewrite ==
    /\ compacting # {}
    /\ \E ioOk \in BOOLEAN :
        LET c == CHOOSE x \in compacting : TRUE
        IN  /\ log' = IF ioOk THEN c.kept ELSE log
            /\ ret' = [op |-> "cleanupRewrite", keepThreshold |-> c.keepThreshold,
                       ioOk |-> ioOk, preLen |-> Len(log)]
    /\ compacting' = {}
    /\ UNCHANGED <<clock, cycleVars, watermarks, seqCounter, taskVars, relayVars, lockVars,
                   legacyVars, inboundVars>>

appendWhileCompacting ==
    /\ compacting # {}
    /\ appendMessageTo(MaxLog + 1)

CacheTick ==
    /\ clock + CacheTickMs <= MaxCacheNow
    /\ clock' = clock + CacheTickMs
    /\ UNCHANGED <<ret, cycleVars, cacheVars, taskVars, relayVars, lockVars, otherVars>>

(***************************************************************************)
(* TaskBoard (src/task-board.js).  A taskId is the sequence of its         *)
(* characters, so that sanitizeTaskId works on it as the code's regular    *)
(* expression does.  Task summaries, notes and the times of history        *)
(* entries (at, lastAt) are written by the code and never read by it; they *)
(* are left out.  Every task file of the model has slots, so               *)
(* migrateLegacyTask returns it as it is.                                  *)
(***************************************************************************)
TaskIds == { <<"T", "#", "1">>, <<"T", "_", "1">>, <<"T", "2">>, <<"T", "3">> }

Actors == {"builder", "researcher"}

Creators == {"main"}

CreateStatuses == {""}

GivenCreateStatuses == {"", "ack"}

Statuses == {"", "ack", "in_progress", "blocked", "DONE", "review_ok"}

\* the character class [a-zA-Z0-9._-]
SafeChars ==
    { "a", "b", "c", "d", "e", "f", "g", "h", "i", "j", "k", "l", "m",
      "n", "o", "p", "q", "r", "s", "t", "u", "v", "w", "x", "y", "z",
      "A", "B", "C", "D", "E", "F", "G", "H", "I", "J", "K", "L", "M",
      "N", "O", "P", "Q", "R", "S", "T", "U", "V", "W", "X", "Y", "Z",
      "0", "1", "2", "3", "4", "5", "6", "7", "8", "9", ".", "_", "-" }

sanitizeTaskId(taskId) ==
    IF taskId = << >>
    THEN <<"t", "a", "s", "k">>
    ELSE [i \in 1..Len(taskId) |->
            IF taskId[i] \in SafeChars THEN taskId[i] ELSE "_"]

\* the name of the task's file in the active directory, as its characters
TaskFilePathPerCall(taskId) ==
    sanitizeTaskId(taskId) \o <<IF clock > TickMs THEN ".late" ELSE ".json">>

taskFilePath(taskId) == sanitizeTaskId(taskId) \o <<".json">>

\* toISOString, as the fields of the date it prints: day since the epoch,
\* hour, minute, second and millisecond
tsKey(ts) ==
    << ts \div 86400000,
       (ts \div 3600000) % 24,
       (ts \div 60000) % 60,
       (ts \div 1000) % 60,
       ts % 1000 >>

\* String.toLowerCase on the statuses callers pass
toLowerCase(s) == IF s = "DONE" THEN "done" ELSE s

TERMINAL_STATUSES == {"done", "review_ok"}

isTerminal(status) == toLowerCase(status) \in TERMINAL_STATUSES

DeriveDoneWhenSomeTerminal(slots) ==
    LET statuses == {toLowerCase(slots[a].status) : a \in DOMAIN slots}
    IN  IF DOMAIN slots = {} THEN "create"
        ELSE IF \E s \in statuses : s = "done" \/ s = "review_ok" THEN "done"
        ELSE IF \E s \in statuses : s = "blocked" THEN "blocked"
        ELSE IF \E s \in statuses : s = "in_progress" THEN "in_progress"
        ELSE "ack"

deriveTaskStatus(slots) ==
    LET statuses == {toLowerCase(slots[a].status) : a \in DOMAIN slots}
    IN  IF DOMAIN slots = {} THEN "create"
        ELSE IF \A s \in statuses : s = "done" \/ s = "review_ok" THEN "done"
        ELSE IF \E s \in statuses : s = "blocked" THEN "blocked"
        ELSE IF \E s \in statuses : s = "in_progress" THEN "in_progress"
        ELSE "ack"

\* Array.slice(-n)
LastNAndOneMore(seq, n) ==
    IF Len(seq) <= n + 1 THEN seq ELSE SubSeq(seq, Len(seq) - n, Len(seq))

lastN(seq, n) ==
    IF Len(seq) <= n THEN seq ELSE SubSeq(seq, Len(seq) - n + 1, Len(seq))

\* asString(x) || fallback
orDefault(x, fallback) == IF x = "" THEN fallback ELSE x

MigrateOneSlotAlways(task) ==
    IF "slots" \in DOMAIN task THEN task
    ELSE [slots |-> Put(EmptyMap, orDefault(orDefault(task.assignee, task.owner), "unknown"),
                        [status |-> orDefault(task.status, "ack"), rounds |-> 1,
                         history |-> [i \in 1..Len(task.history) |->
                                        [status |-> task.history[i].status]]]),
          globalHistory |-> task.history] @@ task

\* migrateLegacyTask: a stored record without slots gets the slot of its assignee
migrateLegacyTask(task) ==
    IF "slots" \in DOMAIN task THEN task
    ELSE LET assignee == orDefault(task.assignee, task.owner)
             slots == IF assignee # ""
                      THEN Put(EmptyMap, assignee,
                               [status |-> orDefault(task.status, "ack"),
                                rounds |-> IF task.rounds = 0 THEN 1 ELSE task.rounds,
                                history |-> [i \in 1..Len(task.history) |->
                                                [status |-> task.history[i].status]]])
                      ELSE EmptyMap
         IN  [slots |-> slots,
              globalHistory |-> [i \in 1..Len(task.history) |->
                    [actor |-> orDefault(orDefault(task.history[i].actor, assignee), "unknown"),
                     status |-> task.history[i].status]]] @@ task

GetTaskMissing(taskId) == {}

\* the task in the active file of taskId, or nothing
getTask(taskId) ==
    IF taskFilePath(taskId) \in DOMAIN activeFiles
    THEN {migrateLegacyTask(activeFiles[taskFilePath(taskId)])}
    ELSE {}

ListNoTasks == {}

listActiveTasks ==
    {migrateLegacyTask(activeFiles[f]) : f \in {x \in DOMAIN activeFiles : activeFiles[x].taskId # << >>}}

\* globalHistory entries held by the files of a directory
RECURSIVE EntriesIn(_)
EntriesIn(files) ==
    IF DOMAIN files = {} THEN 0
    ELSE LET f == CHOOSE x \in DOMAIN files : TRUE
         IN  Len(files[f].globalHistory) + EntriesIn(Del(files, f))

Entries == EntriesIn(activeFiles) + EntriesIn(historyFiles)

\* writeJsonAtomic: the file is replaced, or left as it was when the write fails
writeJsonAtomic(files, path, data, ioOk) ==
    IF ioOk THEN Put(files, path, data) ELSE files

(***************************************************************************)
(* Outcomes of the writes of one call: the task file's write and the board *)
(* file's write each succeed or fail; failed writes are counted.           *)
(***************************************************************************)
IoOutcomes ==
    { io \in [file : BOOLEAN, board : BOOLEAN] :
        (io.file /\ io.board) \/ ioFailures < MaxIoFailures }

IoCount(io) == IF io.file /\ io.board THEN ioFailures ELSE ioFailures + 1

\* _ensureDirs, called before the lock is taken and outside any try: when
\* mkdirSync throws, the call ends with the exception and no result
ensureDirsThrows(call) ==
    /\ ret' = [op |-> "throw", call |-> call, from |-> "mkdirSync"]
    /\ UNCHANGED taskVars

NewTaskWithCreatorSlot(taskId, actor, initialStatus, now) ==
    [taskId |-> taskId,
     status |-> initialStatus,
     createdBy |-> actor,
     createdAt |-> now,
     updatedAt |-> now,
     closedAt |-> 0,
     slots |-> Put(EmptyMap, actor,
                   [status |-> initialStatus, rounds |-> 1,
                    history |-> <<[status |-> initialStatus]>>]),
     globalHistory |-> <<[actor |-> actor, status |-> initialStatus]>>]

\* the task createTask builds
newTask(taskId, actor, initialStatus, now) ==
    [taskId |-> taskId,
     status |-> initialStatus,
     createdBy |-> actor,
     createdAt |-> now,
     updatedAt |-> now,
     closedAt |-> 0,
     slots |-> EmptyMap,
     globalHistory |-> <<[actor |-> actor, status |-> initialStatus]>>]

(***************************************************************************)
(* TaskBoard.createTask                                                    *)
(***************************************************************************)
createTaskIn(taskIds, statuses, maxEntries) ==
    /\ Entries < maxEntries
    /\ \/ ensureDirsThrows("createTask")
       \/ ret' = [op |-> "createTask", ok |-> FALSE, reason |-> "lock_failed"] /\ UNCHANGED taskVars
       \/ \E taskId \in taskIds, createdBy \in Creators, statusIn \in statuses :
        LET now == clock
            actor == orDefault(createdBy, "unknown")
            initialStatus == orDefault(statusIn, "create")
            task == newTask(taskId, actor, initialStatus, now)
            result(reason) == [op |-> "createTask", ok |-> FALSE, reason |-> reason]
        IN  IF taskId = << >>
            THEN ret' = result("invalid") /\ UNCHANGED taskVars
            ELSE
               IF Cardinality(listActiveTasks) >= MaxActiveTasks
               THEN /\ ret' = [op |-> "createTask", taskId |-> taskId, ok |-> FALSE,
                               reason |-> "max_active_reached",
                               count |-> Cardinality(listActiveTasks)]
                    /\ UNCHANGED taskVars
               ELSE IF getTask(taskId) # {}
               THEN /\ ret' = [op |-> "createTask", taskId |-> taskId, ok |-> FALSE,
                               reason |-> "already_exists",
                               task |-> CHOOSE t \in getTask(taskId) : TRUE]
                    /\ UNCHANGED taskVars
               ELSE \E io \in IoOutcomes :
                    /\ activeFiles' = writeJsonAtomic(activeFiles, taskFilePath(taskId), task, io.file)
                    /\ board' = writeJsonAtomic(board, taskId, [status |-> task.status], io.board)
                    /\ ioFailures' = IoCount(io)
                    /\ ret' = [op |-> "createTask", taskId |-> taskId, ok |-> TRUE,
                               created |-> TRUE, task |-> task]
                    /\ UNCHANGED historyFiles
    /\ UNCHANGED <<clock, cycleVars, cacheVars, relayVars, lockVars, otherVars>>

createTaskFrom(statuses) == createTaskIn(TaskIds, statuses, MaxEntries)

createTask == createTaskFrom(CreateStatuses)

\* createTask called with a status parameter
createTaskWithStatus == createTaskFrom(GivenCreateStatuses)

(***************************************************************************)
(* TaskBoard.updateTask                                                    *)
(***************************************************************************)
KeepRounds(rounds) == rounds

\* slots[actor].rounds = (slots[actor].rounds || 0) + 1
incrementRounds(rounds) == rounds + 1

updateTaskIn(taskIds, statuses, actors, maxEntries) ==
    /\ Entries < maxEntries
    /\ \/ ensureDirsThrows("updateTask")
       \/ ret' = [op |-> "updateTask", ok |-> FALSE, reason |-> "lock_failed"] /\ UNCHANGED taskVars
       \/ \E taskId \in taskIds, statusIn \in statuses, actorIn \in actors :
        LET status == toLowerCase(statusIn)
            actor == orDefault(actorIn, "unknown")
            result(reason) == [op |-> "updateTask", ok |-> FALSE, reason |-> reason]
        IN  IF taskId = << >> \/ status = ""
            THEN ret' = result("invalid") /\ UNCHANGED taskVars
            ELSE
               IF getTask(taskId) = {}
               THEN ret' = result("not_found") /\ UNCHANGED taskVars
               ELSE
               LET task == CHOOSE t \in getTask(taskId) : TRUE
                   now == clock
                   old == task.slots
                   slot == IF actor \notin DOMAIN old
                           THEN [status |-> status, rounds |-> 1,
                                 history |-> <<[status |-> status]>>]
                           ELSE [status |-> status,
                                 rounds |-> incrementRounds(old[actor].rounds),
                                 history |-> Append(lastN(old[actor].history, SlotHistoryKeep),
                                                    [status |-> status])]
                   slots == Put(old, actor, slot)
                   globalHistory == Append(lastN(task.globalHistory, GlobalHistoryKeep),
                                           [actor |-> actor, status |-> status])
                   derivedStatus == deriveTaskStatus(slots)
                   next == [task EXCEPT !.slots = slots,
                                        !.globalHistory = globalHistory,
                                        !.status = derivedStatus,
                                        !.updatedAt = now]
                   closed == [next EXCEPT !.closedAt = now]
                   histFile == <<tsKey(now), sanitizeTaskId(taskId) \o <<".json">> >>
               IN  \E io \in IoOutcomes :
                   /\ ioFailures' = IoCount(io)
                   /\ IF isTerminal(derivedStatus)
                      THEN /\ historyFiles' = writeJsonAtomic(historyFiles, histFile, closed, io.file)
                           /\ activeFiles' = Del(activeFiles, taskFilePath(taskId))
                           /\ board' = IF io.board THEN Del(board, taskId) ELSE board
                           /\ ret' = [op |-> "updateTask", taskId |-> taskId, actor |-> actor,
                                      ok |-> TRUE, closed |-> TRUE, task |-> closed]
                      ELSE /\ activeFiles' = writeJsonAtomic(activeFiles, taskFilePath(taskId), next, io.file)
                           /\ board' = writeJsonAtomic(board, taskId, [status |-> next.status], io.board)
                           /\ ret' = [op |-> "updateTask", taskId |-> taskId, actor |-> actor,
                                      ok |-> TRUE, closed |-> FALSE, task |-> next]
                           /\ UNCHANGED historyFiles
    /\ UNCHANGED <<clock, cycleVars, cacheVars, relayVars, lockVars, otherVars>>

updateTask == updateTaskIn(TaskIds, Statuses, Actors, MaxEntries)

\* one task id, created, closed and created again
HistoryTaskIds == { <<"T", "2">> }

HistoryStatuses == {"ack", "DONE"}

createTaskAgain == createTaskIn(HistoryTaskIds, CreateStatuses, HistoryMaxEntries)

updateTaskAgain == updateTaskIn(HistoryTaskIds, HistoryStatuses, Actors, HistoryMaxEntries)

\* one actor signalling one task again and again, ack and in_progress in
\* turn, until the slot has CapsMaxRounds rounds
CapsActor == "builder"

CapsRounds ==
    LET f == taskFilePath(CHOOSE t \in HistoryTaskIds : TRUE)
    IN  IF f \in DOMAIN activeFiles /\ CapsActor \in DOMAIN activeFiles[f].slots
        THEN activeFiles[f].slots[CapsActor].rounds ELSE 0

\* the status of the actor's k-th signal
CapsStatusOf(k) == IF k % 2 = 1 THEN "ack" ELSE "in_progress"

CapsStatuses == IF CapsRounds < CapsMaxRounds THEN {CapsStatusOf(CapsRounds + 1)} ELSE {}

createTaskOnce == createTaskIn(HistoryTaskIds, CreateStatuses, CapsMaxRounds)

updateTaskRepeatedly ==
    updateTaskIn(HistoryTaskIds, CapsStatuses, {CapsActor}, CapsMaxRounds)

TaskTick ==
    /\ clock < MaxTaskNow
    /\ clock' = clock + TaskTickMs
    /\ UNCHANGED <<ret, cycleVars, cacheVars, taskVars, relayVars, lockVars, otherVars>>

(***************************************************************************)
(* Relay: forward targets and the session a room event is delivered to.    *)
(* A session key is the sequence of its pieces, ":" among them; a room id  *)
(* is the sequence of its characters.                                      *)
(***************************************************************************)
RelayAgents == {"main", "builder"}

RelaySources == {"", "main", "builder"}

ForwardModes == {"mentions-only", "all-members", "mentions-or-all"}

RECURSIVE AgentLists(_)
AgentLists(n) ==
    IF n = 0 THEN {<< >>}
    ELSE AgentLists(n - 1)
            \cup {Append(l, a) : l \in {x \in AgentLists(n - 1) : Len(x) = n - 1},
                                 a \in RelayAgents}

DedupeKeepsRepeats(list) == list

\* dedupe: drops empty and repeated items, keeps each first occurrence
RECURSIVE dedupe(_)
dedupe(list) ==
    IF list = << >> THEN << >>
    ELSE LET out == dedupe(SubSeq(list, 1, Len(list) - 1))
             text == list[Len(list)]
         IN  IF text = "" \/ \E i \in 1..Len(out) : out[i] = text
             THEN out
             ELSE Append(out, text)

filterNot(list, agent) == SelectSeq(list, LAMBDA agentId : agentId # agent)

forwardTargets(room, mentionedAgents, sourceAgent) ==
    LET targetAgents ==
            IF room.forwardMode = "mentions-only" THEN mentionedAgents
            ELSE IF room.forwardMode = "all-members" THEN room.memberAgents
            ELSE IF Len(mentionedAgents) > 0 THEN mentionedAgents
            ELSE room.memberAgents
        deduped == dedupe(targetAgents)
    IN  IF ~room.includeSourceAgent /\ sourceAgent # ""
        THEN filterNot(deduped, sourceAgent)
        ELSE deduped

resolveForwardTargets ==
    /\ Cardinality(enqueued) < MaxEnqueued
    /\ \E forwardMode \in ForwardModes, includeSourceAgent \in BOOLEAN,
          memberAgents \in AgentLists(MaxMembers), mentionedAgents \in AgentLists(MaxMentions),
          sourceAgent \in RelaySources :
        LET room == [forwardMode |-> forwardMode,
                     includeSourceAgent |-> includeSourceAgent,
                     memberAgents |-> memberAgents]
        IN  ret' = [op |-> "resolveForwardTargets",
                    room |-> room,
                    mentionedAgents |-> mentionedAgents,
                    sourceAgent |-> sourceAgent,
                    targets |-> forwardTargets(room, mentionedAgents, sourceAgent)]
    /\ UNCHANGED <<clock, cycleVars, cacheVars, taskVars, relayVars, lockVars, otherVars>>

RelayRoomIds == { <<"1", "2">>, <<"9", "1", "2">> }

RouteKinds == {"group", "direct", "main"}

\* what api.runtime.channel.routing.resolveAgentRoute may answer: no route,
\* or the session of an agent (or of no agent) for a peer of some kind
Routes ==
    {[kind |-> "none", agent |-> "", peer |-> << >>]}
        \cup [kind : RouteKinds, agent : RelayAgents \cup {""}, peer : RelayRoomIds]

\* the session key of a route, as the framework spells it
sessionKeyOf(route) ==
    LET prefix == IF route.agent = "" THEN << >> ELSE <<"agent", ":", route.agent, ":">>
    IN  IF route.kind = "none" THEN << >>
        ELSE IF route.kind = "main" THEN prefix \o <<"main">>
        ELSE prefix \o <<"telegram", ":", route.kind, ":">> \o route.peer

lower(text) == [i \in 1..Len(text) |-> toLowerCase(text[i])]

startsWith(text, prefix) ==
    Len(text) >= Len(prefix) /\ SubSeq(text, 1, Len(prefix)) = prefix

isSafeTeamroomSessionKey(sessionKey, roomId, targetAgent) ==
    LET key == lower(sessionKey)
    IN  /\ key # << >>
        /\ lower(roomId) # << >>
        /\ includes(key, <<":", "group", ":">>)
        /\ includes(key, lower(roomId))
        /\ startsWith(key, <<"agent", ":">>) =>
                startsWith(key, <<"agent", ":", toLowerCase(targetAgent), ":">>)

resolveAgentSessionKey(roomId, agentId, route) ==
    IF isSafeTeamroomSessionKey(sessionKeyOf(route), roomId, agentId)
    THEN sessionKeyOf(route)
    ELSE << >>

RelayTexts == {"", "hello"}

enqueueRoomEventToAgent ==
    /\ Cardinality(enqueued) < MaxEnqueued
    /\ \E roomId \in RelayRoomIds, agentId \in RelaySources, text \in RelayTexts,
          route \in Routes :
        LET sessionKey == resolveAgentSessionKey(roomId, agentId, route)
            call == [op |-> "enqueueRoomEventToAgent", roomId |-> roomId,
                     agentId |-> agentId, text |-> text]
        IN  IF agentId = "" \/ text = ""
            THEN /\ ret' = call @@ [route |-> {}, sessionKey |-> << >>, delivered |-> FALSE]
                 /\ UNCHANGED enqueued
            ELSE IF sessionKey = << >>
            THEN /\ ret' = call @@ [route |-> {route}, sessionKey |-> << >>, delivered |-> FALSE]
                 /\ UNCHANGED enqueued
            ELSE /\ enqueued' = enqueued \cup {sessionKey}
                 /\ ret' = call @@ [route |-> {route}, sessionKey |-> sessionKey,
                                    delivered |-> TRUE]
    /\ UNCHANGED <<clock, cycleVars, cacheVars, taskVars, lockVars, otherVars>>

(***************************************************************************)
(* withFileLock, one process per caller.  A caller is at one of: idle (not *)
(* in the call), open (about to openSync the marker with "wx"), stat       *)
(* (openSync failed, about to statSync), rm (found the marker stale, about *)
(* to rmSync), sleep (in sleepMs), fn (holds the marker, runs fn), finally *)
(* (fn is over, about to close and unlink).                                *)
(***************************************************************************)
LockProcs == {"p1", "p2"}

idleProc == [pc |-> "idle", i |-> 0, lockFd |-> FALSE, since |-> 0, threw |-> FALSE]

ReleaseOnlyOnSuccess(file, threw) == IF threw THEN file ELSE {}

\* finally { closeSync(lockFd); unlinkSync(lockPath) }: the path holds no marker
finallyRelease(file, threw) == {}

withFileLock(p) ==
    /\ procs[p].pc = "idle"
    /\ procs' = [procs EXCEPT ![p] = [idleProc EXCEPT !.pc = "open"]]
    /\ UNCHANGED <<clock, ret, lockFile, overran>>

openSync(p) ==
    /\ procs[p].pc = "open"
    /\ IF lockFile = {}
       THEN /\ lockFile' = {[mtime |-> clock, owner |-> p]}
            /\ procs' = [procs EXCEPT ![p] = [@ EXCEPT !.pc = "fn", !.i = 0,
                                                       !.lockFd = TRUE, !.since = clock]]
       ELSE /\ procs' = [procs EXCEPT ![p] = [@ EXCEPT !.pc = "stat"]]
            /\ UNCHANGED lockFile
    /\ UNCHANGED <<clock, ret, overran>>

statSync(p) ==
    /\ procs[p].pc = "stat"
    /\ procs' = [procs EXCEPT ![p] = [@ EXCEPT !.pc =
                    IF lockFile # {} /\ \E stat \in lockFile : clock - stat.mtime > LOCK_STALE_MS
                    THEN "rm" ELSE "sleep"]]
    /\ UNCHANGED <<clock, ret, lockFile, overran>>

rmSync(p) ==
    /\ procs[p].pc = "rm"
    /\ lockFile' = {}
    /\ procs' = [procs EXCEPT ![p] = [@ EXCEPT !.pc = "sleep"]]
    /\ UNCHANGED <<clock, ret, overran>>

\* sleepMs, then the next round of the loop, or the return of false after the last
sleepMs(p) ==
    /\ procs[p].pc = "sleep"
    /\ IF procs[p].i + 1 < LOCK_RETRIES
       THEN /\ procs' = [procs EXCEPT ![p] = [@ EXCEPT !.pc = "open", !.i = @ + 1]]
            /\ UNCHANGED ret
       ELSE /\ procs' = [procs EXCEPT ![p] = idleProc]
            /\ ret' = [op |-> "withFileLock", caller |-> p, result |-> FALSE,
                       acquired |-> FALSE, ran |-> FALSE, threw |-> FALSE,
                       tries |-> procs[p].i + 1]
    /\ UNCHANGED <<clock, lockFile, overran>>

fn(p) ==
    /\ procs[p].pc = "fn"
    /\ \E threw \in BOOLEAN :
        procs' = [procs EXCEPT ![p] = [@ EXCEPT !.pc = "finally", !.threw = threw]]
    /\ UNCHANGED <<clock, ret, lockFile, overran>>

finally(p) ==
    /\ procs[p].pc = "finally"
    /\ lockFile' = finallyRelease(lockFile, procs[p].threw)
    /\ procs' = [procs EXCEPT ![p] = idleProc]
    /\ ret' = [op |-> "withFileLock", caller |-> p, result |-> ~procs[p].threw,
               acquired |-> procs[p].lockFd, ran |-> TRUE, threw |-> procs[p].threw,
               tries |-> 0]
    /\ UNCHANGED <<clock, overran>>

\* the process dies while it holds the marker; the marker stays
crash(p) ==
    /\ procs[p].pc = "fn"
    /\ procs' = [procs EXCEPT ![p] = idleProc]
    /\ UNCHANGED <<clock, ret, lockFile, overran>>

LockTick ==
    /\ clock < MaxLockNow
    /\ clock' = clock + LockTickMs
    /\ overran' = (overran \/ \E p \in LockProcs :
                        procs[p].lockFd /\ clock' - procs[p].since > LOCK_STALE_MS)
    /\ UNCHANGED <<ret, lockFile, procs>>

NextLock ==
    \/ \E p \in LockProcs :
        /\ \/ withFileLock(p)
           \/ openSync(p)
           \/ statSync(p)
           \/ rmSync(p)
           \/ sleepMs(p)
           \/ fn(p)
           \/ finally(p)
           \/ crash(p)
        /\ UNCHANGED <<cycleVars, cacheVars, taskVars, relayVars, otherVars>>
    \/ LockTick /\ UNCHANGED <<cycleVars, cacheVars, taskVars, relayVars, otherVars>>

(***************************************************************************)
(* The legacy single-task state of TeamChatState: one active task a room.  *)
(***************************************************************************)
LegacyRooms == {"R1", "R2"}

SignalTaskIds == {"", "T-260", "T-261"}

SignalStatuses == {"", "create", "in_progress", "DONE"}

SignalOwners == {"", "builder"}

SignalActors == {"", "main"}

isTerminalStatus(status) == toLowerCase(status) \in {"done", "review_ok"}

getActiveTask(roomId) ==
    IF roomId \in DOMAIN activeTaskByRoom THEN {activeTaskByRoom[roomId]} ELSE {}

getClosedCount(roomId) ==
    IF roomId \in DOMAIN closedCountByRoom THEN closedCountByRoom[roomId] ELSE 0

AnyTaskConflicts(activeTaskId, taskId) == FALSE

\* active.taskId !== taskId
taskConflicts(activeTaskId, taskId) == activeTaskId # taskId

ownerOr(owner, fallback, status, normalizedActor) ==
    IF owner # "" THEN owner
    ELSE IF fallback # "" THEN fallback
    ELSE IF status \in {"create", "ack"} THEN normalizedActor
    ELSE ""

applyTaskSignal ==
    /\ \E roomId \in LegacyRooms, taskIdIn \in SignalTaskIds, statusIn \in SignalStatuses,
          owner \in SignalOwners, actor \in SignalActors :
        LET taskId == taskIdIn
            status == toLowerCase(statusIn)
            normalizedActor == orDefault(actor, "external")
            now == clock
            call == [op |-> "applyTaskSignal", roomId |-> roomId, taskId |-> taskId,
                     status |-> status]
            active == getActiveTask(roomId)
        IN  /\ getClosedCount(roomId) < MaxClosed
            /\ \A a \in active : a.taskId = taskId => Len(a.history) < MaxLegacyHistory
            /\ IF taskId = "" \/ status = ""
               THEN /\ ret' = call @@ [ok |-> FALSE, reason |-> "invalid"]
                    /\ UNCHANGED legacyVars
               ELSE IF active = {}
               THEN LET created == [taskId |-> taskId,
                                    status |-> status,
                                    owner |-> ownerOr(owner, "", status, normalizedActor),
                                    lastActor |-> normalizedActor,
                                    createdAt |-> now,
                                    updatedAt |-> now,
                                    closedAt |-> 0,
                                    history |-> <<[status |-> status, actor |-> normalizedActor]>>]
                    IN  IF isTerminalStatus(status)
                        THEN /\ closedCountByRoom' = Put(closedCountByRoom, roomId,
                                                         getClosedCount(roomId) + 1)
                             /\ UNCHANGED activeTaskByRoom
                             /\ ret' = call @@ [ok |-> TRUE, created |-> TRUE, closed |-> TRUE,
                                                record |-> [created EXCEPT !.closedAt = now]]
                        ELSE /\ activeTaskByRoom' = Put(activeTaskByRoom, roomId, created)
                             /\ UNCHANGED closedCountByRoom
                             /\ ret' = call @@ [ok |-> TRUE, created |-> TRUE, closed |-> FALSE,
                                                record |-> created]
               ELSE LET a == CHOOSE t \in active : TRUE
                        next == [a EXCEPT !.status = status,
                                          !.owner = ownerOr(owner, a.owner, status, normalizedActor),
                                          !.lastActor = normalizedActor,
                                          !.updatedAt = now,
                                          !.history = Append(lastN(a.history, GlobalHistoryKeep),
                                                             [status |-> status,
                                                              actor |-> normalizedActor])]
                    IN  IF taskConflicts(a.taskId, taskId)
                        THEN /\ ret' = call @@ [ok |-> FALSE, reason |-> "active_conflict",
                                                activeTaskId |-> a.taskId, active |-> a]
                             /\ UNCHANGED legacyVars
                        ELSE IF isTerminalStatus(status)
                        THEN /\ closedCountByRoom' = Put(closedCountByRoom, roomId,
                                                         getClosedCount(roomId) + 1)
                             /\ activeTaskByRoom' = Del(activeTaskByRoom, roomId)
                             /\ ret' = call @@ [ok |-> TRUE, updated |-> TRUE, closed |-> TRUE,
                                                record |-> [next EXCEPT !.closedAt = now]]
                        ELSE /\ activeTaskByRoom' = Put(activeTaskByRoom, roomId, next)
                             /\ UNCHANGED closedCountByRoom
                             /\ ret' = call @@ [ok |-> TRUE, updated |-> TRUE, closed |-> FALSE,
                                                record |-> next]
    /\ UNCHANGED <<clock, cycleVars, cacheVars, taskVars, relayVars, lockVars, compactVars,
                   inboundVars>>

NextLegacy == applyTaskSignal

(***************************************************************************)
(* Task files an earlier version of the plugin left in the active          *)
(* directory, and the reads that migrate them.                             *)
(***************************************************************************)
LegacyHistories ==
    { << >>, <<[status |-> "ack", actor |-> "builder"]>>,
      <<[status |-> "ack", actor |-> ""], [status |-> "in_progress", actor |-> "main"]>> }

\* what a task file may hold: a legacy record, or a record that has slots
StoredRecords ==
    [taskId : {<<"T", "2">>, <<"T", "3">>}, status : {"", "in_progress"},
     assignee : {"", "builder"}, owner : {"", "researcher"}, rounds : {0, 2},
     history : LegacyHistories, createdAt : {TickMs}, updatedAt : {TickMs}]
      \cup {newTask(<<"T", "2">>, "main", "create", TickMs),
            [newTask(<<"T", "3">>, "main", "create", TickMs) EXCEPT
                !.slots = Put(EmptyMap, "builder",
                              [status |-> "ack", rounds |-> 1,
                               history |-> <<[status |-> "ack"]>>]),
                !.status = "ack"]}

writeStoredRecord ==
    /\ \E raw \in StoredRecords :
        /\ activeFiles' = Put(activeFiles, taskFilePath(raw.taskId), raw)
        /\ ret' = [op |-> "writeFileSync", taskId |-> raw.taskId]
    /\ UNCHANGED <<clock, historyFiles, board, ioFailures, cycleVars, cacheVars, relayVars,
                   lockVars, otherVars>>

readTask ==
    /\ \E taskId \in TaskIds :
        ret' = [op |-> "getTask", taskId |-> taskId,
                raw |-> IF taskFilePath(taskId) \in DOMAIN activeFiles
                        THEN {activeFiles[taskFilePath(taskId)]} ELSE {},
                task |-> getTask(taskId)]
    /\ UNCHANGED <<clock, taskVars, cycleVars, cacheVars, relayVars, lockVars, otherVars>>

readActiveTasks ==
    /\ ret' = [op |-> "listActiveTasks", tasks |-> listActiveTasks]
    /\ UNCHANGED <<clock, taskVars, cycleVars, cacheVars, relayVars, lockVars, otherVars>>

NextMigrate == writeStoredRecord \/ readTask \/ readActiveTasks

(***************************************************************************)
(* normalizeRoomConfig: the limits of a raw room configuration.  A raw     *)
(* value is absent, null, a string or a number; a number is held in        *)
(* tenths, so that Math.trunc has something to cut.                        *)
(***************************************************************************)
Num(tenths) == [kind |-> "number", tenths |-> tenths]

NotNumbers == {[kind |-> k, tenths |-> 0] : k \in {"absent", "null", "string"}}

RawTurns == NotNumbers \cup {Num(-15), Num(35), Num(9990)}

RawTtl == NotNumbers \cup {Num(-15), Num(9005), Num(8640010)}

RawEchoWindow == NotNumbers \cup {Num(-15), Num(1205), Num(99990)}

RawDispatch == NotNumbers \cup {Num(-15), Num(35), Num(9990)}

\* {...DEFAULT_ROOM, ...rawRoom}: the raw value, the default where there is none
merged(raw, default) == IF raw.kind = "absent" THEN Num(default * 10) ELSE raw

trunc(tenths) == IF tenths >= 0 THEN tenths \div 10 ELSE -((-tenths) \div 10)

clampInt(value, fallback, min, max) ==
    IF value.kind # "number" THEN fallback
    ELSE LET n == trunc(value.tenths)
         IN  IF n < min THEN Num(min * 10)
             ELSE IF n > max THEN Num(max * 10)
             ELSE Num(n * 10)

\* merged.maxTurnsPerCycle ?? 3
orThree(value) == IF value.kind = "null" THEN Num(30) ELSE value

normalizeRoomConfig ==
    /\ \E rawTurns \in RawTurns, rawTtl \in RawTtl, rawEcho \in RawEchoWindow,
          rawDispatch \in RawDispatch :
        LET maxTurns == merged(rawTurns, 3)
            dispatch == merged(rawDispatch, 0)
        IN  ret' = [op |-> "normalizeRoomConfig",
                    raw |-> [maxTurnsPerCycle |-> rawTurns, cycleTtlSeconds |-> rawTtl,
                             outgoingEchoWindowSeconds |-> rawEcho,
                             maxDispatchPerCycle |-> rawDispatch],
                    maxTurnsPerCycle |-> clampInt(maxTurns, Num(30), 1, 20),
                    cycleTtlSeconds |-> clampInt(merged(rawTtl, 900), Num(9000), 30, 86400),
                    outgoingEchoWindowSeconds |->
                        clampInt(merged(rawEcho, 120), Num(1200), 10, 3600),
                    maxDispatchPerCycle |->
                        IF rawDispatch.kind \in {"absent", "null"}
                        THEN [kind |-> "null", tenths |-> 0]
                        ELSE clampInt(dispatch, orThree(maxTurns), 1, 20)]
    /\ UNCHANGED <<clock, cycleVars, cacheVars, taskVars, relayVars, lockVars, otherVars>>

NextConfig == normalizeRoomConfig

(***************************************************************************)
(* The inbound hook (messageReceived) and the outgoing-echo list of        *)
(* TeamChatState.  A text is the sequence of its char codes.               *)
(***************************************************************************)
OutgoingTexts == { <<1, 32>>, <<2, 1>>, <<3>> }

OutgoingAgents == {"", "builder"}

SenderIds == {"ou_user", "ou_builder"}

\* pluginConfig.identity.senderIdToAgent[senderId] || ""
senderIdToAgent(senderId) == IF senderId = "ou_builder" THEN "builder" ELSE ""

RECURSIVE hashFrom(_, _, _)
\* the texts of the model are short: hash * 31 + code stays far below 2^32,
\* where the code's >>> 0 is the identity
hashFrom(text, i, hash) ==
    IF i > Len(text) THEN hash ELSE hashFrom(text, i + 1, hash * 31 + text[i])

textHash(input) == hashFrom(input, 1, 0)

pruneOutgoing(list, ttlMs, now) ==
    LET cutoff == now - ttlMs
        idx == Cardinality({i \in 1..Len(list) : \A j \in 1..i : list[j].ts < cutoff})
    IN  SubSeq(list, idx + 1, Len(list))

\* list.findIndex((item) => item.hash === hash), 0 when there is none
findIndexHash(list, hash) ==
    LET hits == {i \in 1..Len(list) : list[i].hash = hash}
    IN  IF hits = {} THEN 0 ELSE CHOOSE i \in hits : \A j \in hits : i <= j

splice(list, idx) == SubSeq(list, 1, idx - 1) \o SubSeq(list, idx + 1, Len(list))

recordOutgoing ==
    /\ Len(outgoingByRoom) < MaxOutgoing
    /\ \E text \in OutgoingTexts, agentId \in OutgoingAgents :
        /\ outgoingByRoom' = Append(outgoingByRoom,
                                [hash |-> textHash(text), text |-> text,
                                 agentId |-> agentId, ts |-> clock])
        /\ ret' = [op |-> "recordOutgoing", text |-> text, agentId |-> agentId]
    /\ UNCHANGED <<clock, cycleVars, cacheVars, taskVars, relayVars, lockVars, legacyVars,
                   compactVars>>

\* the list after TeamChatState.detectOutgoingEcho and the value it returns
\* ("" for null)
detectOutgoingEcho(list, text, now, windowSeconds) ==
    IF Len(list) = 0
    THEN [list |-> list, matched |-> FALSE, agent |-> ""]
    ELSE LET pruned == pruneOutgoing(list, Max(1000, windowSeconds * 1000), now)
             idx == findIndexHash(pruned, textHash(text))
         IN  IF idx = 0
             THEN [list |-> pruned, matched |-> FALSE, agent |-> ""]
             ELSE [list |-> splice(pruned, idx), matched |-> TRUE,
                   agent |-> pruned[idx].agentId]

\* if (!echoedAgent) state.registerInboundExternal(roomId, room, timestamp)
registersInbound(echoedAgent) == echoedAgent = ""

messageReceived ==
    /\ \E content \in OutgoingTexts, senderId \in SenderIds :
        LET timestamp == clock
            echo == detectOutgoingEcho(outgoingByRoom, content, timestamp, EchoWindowSeconds)
            echoedAgent == echo.agent
            mappedSourceAgent == senderIdToAgent(senderId)
            sourceAgent == IF echoedAgent # "" THEN echoedAgent ELSE mappedSourceAgent
            had == Room \in DOMAIN cycles
            fresh == CycleExpired(roomConfig, timestamp)
            cycle == getCycle(roomConfig, timestamp)
            reset == shouldReset(cycle, timestamp)
            after == [cycle EXCEPT
                        !.turnsUsed = IF reset THEN 0 ELSE @,
                        !.dispatchCount = IF reset THEN 0 ELSE @,
                        !.lastInboundAt = timestamp,
                        !.lastActivityAt = timestamp]
            call == [op |-> "messageReceived", content |-> content, senderId |-> senderId,
                     echoMatched |-> echo.matched, echoedAgent |-> echoedAgent,
                     mappedSourceAgent |-> mappedSourceAgent, sourceAgent |-> sourceAgent,
                     had |-> had,
                     preTurnsUsed |-> IF had THEN cycles[Room].turnsUsed ELSE 0,
                     preDispatchCount |-> IF had THEN cycles[Room].dispatchCount ELSE 0]
        IN  /\ outgoingByRoom' = echo.list
            /\ IF registersInbound(echoedAgent)
               THEN /\ cycles' = Put(cycles, Room, after)
                    /\ lastRegisterAt' = timestamp
                    /\ okTurns' = IF fresh \/ reset THEN 0 ELSE okTurns
                    /\ cfgFixed' = IF fresh \/ reset THEN TRUE ELSE cfgFixed
                    /\ ret' = call @@ [registered |-> TRUE]
               ELSE /\ UNCHANGED <<cycles, lastRegisterAt, okTurns, cfgFixed>>
                    /\ ret' = call @@ [registered |-> FALSE]
    /\ UNCHANGED <<clock, roomConfig, cacheVars, taskVars, relayVars, lockVars, legacyVars,
                   compactVars>>

InboundTick ==
    /\ clock + TickMs <= MaxInboundNow
    /\ clock' = clock + TickMs
    /\ UNCHANGED <<ret, cycleVars, cacheVars, taskVars, relayVars, lockVars, otherVars>>

NextInbound ==
    \/ recordOutgoing
    \/ messageReceived
    \/ tryConsumeTurn
    \/ tryConsumeDispatch
    \/ InboundTick

(***************************************************************************)
(* The relay loop of messageReceived: for a forward target, the event is   *)
(* handed to enqueueRoomEventToAgent and the target's watermark is moved   *)
(* by MessageCache.markAllAsRead.                                          *)
(***************************************************************************)
\* the watermarks after MessageCache.markAsRead(roomId, agentId, upToMessageId, upToTs)
markedAsRead(agentId, upToMessageId, upToTs) ==
    Put(watermarks, agentId,
        [lastReadId |-> IF upToMessageId # "" THEN upToMessageId ELSE lastReadIdOf(agentId),
         lastReadTs |-> IF upToTs # 0 THEN upToTs ELSE clock])

\* the watermarks after MessageCache.markAllAsRead(roomId, agentId)
markAllAsRead(agentId) ==
    LET allMessages == readAllMessages
        last == allMessages[Len(allMessages)]
    IN  IF Len(allMessages) = 0 THEN watermarks
        ELSE markedAsRead(agentId, last.id, last.ts)

\* the room whose message is relayed
ForwardRoomId == <<"1", "2">>

\* enqueueRoomEventToAgent(...); messageCache.markAllAsRead(room.id, targetAgent);
markAfterRelay(delivered, agentId) == markAllAsRead(agentId)

relayToTarget ==
    /\ Cardinality(enqueued) < MaxEnqueued
    /\ \E targetAgent \in RelayAgents, route \in Routes :
        LET sessionKey == resolveAgentSessionKey(ForwardRoomId, targetAgent, route)
            delivered == sessionKey # << >>
        IN  /\ enqueued' = IF delivered THEN enqueued \cup {sessionKey} ELSE enqueued
            /\ watermarks' = markAfterRelay(delivered, targetAgent)
            /\ ret' = [op |-> "relayToTarget", targetAgent |-> targetAgent,
                       route |-> route, sessionKey |-> sessionKey, delivered |-> delivered,
                       preWatermark |-> IF targetAgent \in DOMAIN watermarks
                                        THEN {watermarks[targetAgent]} ELSE {},
                       preUnread |-> Len(getUnreadMessages(targetAgent))]
    /\ UNCHANGED <<clock, cycleVars, log, seqCounter, taskVars, lockVars, otherVars>>

NextForward ==
    \/ appendMessage
    \/ relayToTarget
    \/ CacheTick

(***************************************************************************)
(* MessageCache.buildContextBlock.  The block is the sequence of its       *)
(* lines, the empty string the empty sequence; an option that is absent    *)
(* (or 0) is 0.                                                            *)
(***************************************************************************)
ContextMaxMessages == {0, 1}

ContextMaxChars == {0, 4, 5}

RECURSIVE textLength(_)
\* String.prototype.length of a text held as its pieces
textLength(text) ==
    IF text = << >> THEN 0 ELSE Len(Head(text)) + textLength(Tail(text))

RECURSIVE contentLength(_)
\* the characters of the contents of some messages (charCount)
contentLength(messages) ==
    IF messages = << >> THEN 0
    ELSE textLength(Head(messages).content) + contentLength(Tail(messages))

CandidatesOldest(unread, maxMessages) ==
    SubSeq(unread, 1, IF maxMessages < Len(unread) THEN maxMessages ELSE Len(unread))

\* unread.slice(-maxMessages)
candidatesOf(unread, maxMessages) == lastN(unread, maxMessages)

RECURSIVE selectFrom(_, _, _, _, _)
\* the loop from the newest candidate to the oldest
selectFrom(candidates, i, charCount, maxChars, selected) ==
    IF i < 1 THEN selected
    ELSE LET line == candidates[i].content
         IN  IF charCount + textLength(line) > maxChars THEN selected
             ELSE selectFrom(candidates, i - 1, charCount + textLength(line), maxChars,
                             <<candidates[i]>> \o selected)

\* the messages buildContextBlock puts into the block
selectedFor(agentId, options) ==
    LET unread == getUnreadMessages(agentId)
        maxMessages == IF options.maxMessages # 0 THEN options.maxMessages
                       ELSE DefaultMaxMessages
        maxChars == IF options.maxChars # 0 THEN options.maxChars ELSE DefaultMaxChars
        candidates == candidatesOf(unread, maxMessages)
    IN  selectFrom(candidates, Len(candidates), 0, maxChars, << >>)

contextBlock(agentId, options) ==
    LET unread == getUnreadMessages(agentId)
        selected == selectedFor(agentId, options)
        skipped == Len(unread) - Len(selected)
    IN  IF Len(unread) = 0 THEN << >>
        ELSE <<[line |-> "teamroom-context", unread |-> Len(unread),
                skipped |-> IF skipped > 0 THEN {skipped} ELSE {}]>>
             \o [i \in 1..Len(selected) |->
                    [line |-> "message",
                     time |-> <<(selected[i].ts \div 3600000) % 24,
                                (selected[i].ts \div 60000) % 60>>,
                     sender |-> orDefault(selected[i].sourceAgent, "unknown"),
                     content |-> selected[i].content]]
             \o <<[line |-> "/teamroom-context"]>>

buildContextBlock ==
    /\ \E agentId \in Agents, maxMessages \in ContextMaxMessages,
          maxChars \in ContextMaxChars :
        LET options == [maxMessages |-> maxMessages, maxChars |-> maxChars]
        IN  ret' = [op |-> "buildContextBlock", agentId |-> agentId, options |-> options,
                    selected |-> selectedFor(agentId, options),
                    block |-> contextBlock(agentId, options)]
    /\ UNCHANGED <<clock, cycleVars, cacheVars, taskVars, relayVars, lockVars, otherVars>>

NextContext ==
    \/ appendMessage
    \/ markAsRead
    \/ buildContextBlock
    \/ CacheTick

(***************************************************************************)
(* The fan-out of messageReceived: the relay loop, the mirror to the main  *)
(* agent, the task-signal events and the autopilot dispatch of one inbound *)
(* message.                                                                *)
(***************************************************************************)
FanOutMembers == <<"main", "builder">>

AutopilotTriggers == {"mentions-only", "mentions-or-all"}

\* room.protocol: disabled, or enabled with main as the main agent
ProtocolConfigs ==
    { [enabled |-> FALSE, mainAgentId |-> "", mirrorToMain |-> "off"],
      [enabled |-> TRUE, mainAgentId |-> "main", mirrorToMain |-> "off"],
      [enabled |-> TRUE, mainAgentId |-> "main", mirrorToMain |-> "all-agent-messages"] }

\* what resolveAgentRoute answers for an agent: no route, or the agent's
\* group session of the room
FanOutRoute(agentId, routed) ==
    IF routed THEN [kind |-> "group", agent |-> agentId, peer |-> ForwardRoomId]
    ELSE [kind |-> "none", agent |-> "", peer |-> << >>]

\* echoedAgent and proactiveEcho = echoedAgent && consumeProactiveRelayEcho(...)
EchoKinds ==
    { e \in [echoed : BOOLEAN, proactiveEcho : BOOLEAN] : e.proactiveEcho => e.echoed }

has(list, agentId) == \E i \in 1..Len(list) : list[i] = agentId

resolveAutopilotTargets(room, mentionedAgents, sourceAgent) ==
    LET mentionList == dedupe(mentionedAgents)
        targets == IF room.autopilot.trigger = "mentions-only" THEN mentionList
                   ELSE IF Len(mentionList) > 0 THEN mentionList
                   ELSE room.memberAgents
    IN  IF ~room.includeSourceAgent /\ sourceAgent # ""
        THEN dedupe(filterNot(targets, sourceAgent))
        ELSE dedupe(targets)

RelayEveryForwardTarget(targets, autopilotTargets) == targets

\* the forward targets the relay loop does not skip
relayTargets(targets, autopilotTargets) ==
    SelectSeq(targets, LAMBDA targetAgent : ~has(autopilotTargets, targetAgent))

fanOut ==
    /\ Len(log) < FanOutMaxMessages
    /\ \E echo \in EchoKinds, sourceAgent \in RelaySources,
          forwardMode \in ForwardModes, includeSourceAgent \in BOOLEAN,
          syncAgentMessages \in BOOLEAN, enabled \in BOOLEAN,
          trigger \in AutopilotTriggers, protocol \in ProtocolConfigs,
          mentionedAgents \in AgentLists(MaxMembers), hasTaskSignals \in BOOLEAN,
          replied \in BOOLEAN, routed \in BOOLEAN :
        LET now == clock
            echoed == echo.echoed
            proactiveEcho == echo.proactiveEcho
            room == [forwardMode |-> forwardMode, includeSourceAgent |-> includeSourceAgent,
                     memberAgents |-> FanOutMembers,
                     autopilot |-> [enabled |-> enabled, trigger |-> trigger]]
            autopilotTargets ==
                IF ~echoed /\ room.autopilot.enabled
                THEN resolveAutopilotTargets(room, mentionedAgents, sourceAgent)
                ELSE << >>
            relaying == ~echoed \/ (syncAgentMessages /\ ~proactiveEcho)
            targets == forwardTargets(room, mentionedAgents, sourceAgent)
            relayed == IF relaying THEN relayTargets(targets, autopilotTargets) ELSE << >>
            mainAgentId == protocol.mainAgentId
            isMainSource == sourceAgent # "" /\ sourceAgent = mainAgentId
            mainForwarded == has(targets, mainAgentId) /\ ~has(autopilotTargets, mainAgentId)
            shouldMirrorAgentMessage ==
                /\ ~isMainSource
                /\ ~mainForwarded
                /\ ~has(autopilotTargets, mainAgentId)
                /\ protocol.mirrorToMain = "all-agent-messages"
                /\ (sourceAgent # "" \/ ~echoed)
            withMain == relaying /\ protocol.enabled /\ mainAgentId # ""
            mirrored == IF withMain /\ shouldMirrorAgentMessage THEN <<mainAgentId>> ELSE << >>
            signalled == IF withMain /\ ~isMainSource /\ hasTaskSignals
                         THEN <<mainAgentId>> ELSE << >>
            \* state.tryConsumeDispatch for each autopilot target, until one fails
            fresh == CycleExpired(roomConfig, now)
            cycle == getCycle(roomConfig, now)
            budget == Max(0, cycle.maxDispatch - cycle.dispatchCount)
            dispatched == SubSeq(autopilotTargets, 1,
                                 IF Len(autopilotTargets) < budget
                                 THEN Len(autopilotTargets) ELSE budget)
            events == relayed \o mirrored \o signalled
            keys == {resolveAgentSessionKey(ForwardRoomId, events[i],
                                            FanOutRoute(events[i], routed)) :
                        i \in 1..Len(events)} \ {<< >>}
            marked == relayed \o mirrored \o dispatched
            \* messageCache.appendMessage of the inbound message, before the fan-out
            last == [id |-> "a", ts |-> now, sourceAgent |-> sourceAgent,
                     content |-> <<"hello">>]
        IN  /\ echoed => sourceAgent # ""
            /\ enqueued' = enqueued \cup keys
            /\ log' = Append(log, last)
            /\ watermarks' =
                     [a \in DOMAIN watermarks \cup {marked[i] : i \in 1..Len(marked)} |->
                        IF has(marked, a)
                        THEN [lastReadId |-> IF last.id # "" THEN last.id ELSE lastReadIdOf(a),
                              lastReadTs |-> IF last.ts # 0 THEN last.ts ELSE clock]
                        ELSE watermarks[a]]
            /\ IF Len(autopilotTargets) > 0
               THEN /\ cycles' = Put(cycles, Room,
                        [cycle EXCEPT !.dispatchCount = @ + Len(dispatched),
                                      !.lastActivityAt = IF Len(dispatched) > 0 THEN now ELSE @])
                    /\ okTurns' = IF fresh THEN 0 ELSE okTurns
                    /\ cfgFixed' = IF fresh THEN TRUE ELSE cfgFixed
               ELSE UNCHANGED <<cycles, okTurns, cfgFixed>>
            /\ outgoingByRoom' =
                IF replied
                THEN outgoingByRoom \o [i \in 1..Len(dispatched) |->
                        [hash |-> textHash(<<3>>), text |-> <<3>>,
                         agentId |-> dispatched[i], ts |-> now]]
                ELSE outgoingByRoom
            /\ ret' = [op |-> "fanOut", echoed |-> echoed, forwardTargets |-> targets,
                       autopilotTargets |-> autopilotTargets, relayed |-> relayed,
                       mirrored |-> mirrored, signalled |-> signalled,
                       dispatched |-> dispatched]
    /\ UNCHANGED <<clock, roomConfig, lastRegisterAt, seqCounter, taskVars, lockVars,
                   legacyVars, compactVars>>

NextFanOut ==
    \/ fanOut
    \/ tryConsumeDispatch

(***************************************************************************)
(* Specifications                                                          *)
(***************************************************************************)
Init ==
    /\ clock = TickMs
    /\ roomConfig = [maxTurnsPerCycle |-> MaxTurnsCfg,
                     cycleTtlSeconds |-> MinCycleTtlSeconds,
                     maxDispatchPerCycle |-> {}]
    /\ cycles = EmptyMap
    /\ ret = [op |-> "init"]
    /\ lastRegisterAt = 0
    /\ okTurns = 0
    /\ cfgFixed = TRUE
    /\ log = << >>
    /\ watermarks = EmptyMap
    /\ seqCounter = 0
    /\ activeFiles = EmptyMap
    /\ historyFiles = EmptyMap
    /\ board = EmptyMap
    /\ ioFailures = 0
    /\ enqueued = {}
    /\ lockFile = {}
    /\ procs = [p \in LockProcs |-> idleProc]
    /\ overran = FALSE
    /\ activeTaskByRoom = EmptyMap
    /\ closedCountByRoom = EmptyMap
    /\ compacting = {}
    /\ outgoingByRoom = << >>

NextCycle ==
    \/ registerInboundExternal
    \/ tryConsumeTurn
    \/ tryConsumeDispatch
    \/ resetCycle
    \/ CycleTick
    \/ Reconfigure

SpecCycle == Init /\ [][NextCycle]_vars

NextCache ==
    \/ appendMessage
    \/ markAsRead
    \/ cleanup
    \/ CacheTick

SpecCache == Init /\ [][NextCache]_vars

\* one cleanup a run: the run ends with its rewrite
NextCompact ==
    /\ ret.op # "cleanupRewrite"
    /\ \/ appendMessage
       \/ markAsRead
       \/ cleanupRead
       \/ appendWhileCompacting
       \/ cleanupRewrite
       \/ CacheTick

SpecCompact == Init /\ [][NextCompact]_vars

NextTask ==
    \/ createTask
    \/ updateTask
    \/ TaskTick

SpecTask == Init /\ [][NextTask]_vars

NextRelay ==
    \/ resolveForwardTargets
    \/ enqueueRoomEventToAgent

SpecRelay == Init /\ [][NextRelay]_vars

SpecLock == Init /\ [][NextLock]_vars

SpecLegacy == Init /\ [][NextLegacy]_vars

SpecMigrate == Init /\ [][NextMigrate]_vars

SpecConfig == Init /\ [][NextConfig]_vars

SpecInbound == Init /\ [][NextInbound]_vars

SpecForward == Init /\ [][NextForward]_vars

NextTaskStatus ==
    \/ createTaskWithStatus
    \/ updateTask

SpecTaskStatus == Init /\ [][NextTaskStatus]_vars

NextHistory ==
    \/ createTaskAgain
    \/ updateTaskAgain
    \/ TaskTick

SpecHistory == Init /\ [][NextHistory]_vars

SpecContext == Init /\ [][NextContext]_vars

NextCaps ==
    \/ createTaskOnce
    \/ updateTaskRepeatedly

SpecCaps == Init /\ [][NextCaps]_vars

SpecFanOut == Init /\ [][NextFanOut]_vars

Next == NextCycle \/ NextCache \/ NextTask \/ NextRelay \/ NextLock \/ NextLegacy \/ NextMigrate \/ NextConfig \/ NextCompact
          \/ NextInbound \/ NextForward \/ NextTaskStatus
          \/ NextHistory \/ NextContext \/ NextCaps
          \/ NextFanOut

Spec == Init /\ [][Next]_vars

(***************************************************************************)
(* Claims about the cycle/rate limiter (checked under SpecCycle).          *)
(***************************************************************************)

\* C1: with a fixed room config where maxTurnsPerCycle = N, from a fresh cycle
\* and with no reset in between, exactly the first N tryConsumeTurn calls
\* return ok; every later call returns ok = false, reports turnsUsed = N and
\* leaves turnsUsed as it was.
C1_TurnLimit ==
    (ret.op = "tryConsumeTurn" /\ cfgFixed) =>
        LET N == roomConfig.maxTurnsPerCycle
        IN  IF ret.ok
            THEN /\ okTurns <= N
                 /\ ret.turnsUsed = okTurns
                 /\ cycles[Room].turnsUsed = ret.preTurnsUsed + 1
            ELSE /\ okTurns = N
                 /\ ret.turnsUsed = N
                 /\ ret.maxTurns = N
                 /\ cycles[Room].turnsUsed = ret.preTurnsUsed

\* C1 witness: maxTurnsPerCycle = 2, two calls succeeded, the third failed.
C1_Witness ==
    /\ ret.op = "tryConsumeTurn"
    /\ cfgFixed
    /\ roomConfig.maxTurnsPerCycle = 2
    /\ ~ret.ok
    /\ okTurns = 2
    /\ ret.turnsUsed = 2

\* C3 as stated: a registerInboundExternal call less than 5000 ms after the
\* room's previous one does not reset turnsUsed or dispatchCount (here even
\* with the cycle that recorded the previous call still stored).
C3_DebouncedNeverResets ==
    (ret.op = "registerInboundExternal" /\ ret.short /\ ret.recorded) => ret.kept

\* C3 amended: a registerInboundExternal call less than 5000 ms after the
\* previous one does not reset turnsUsed or dispatchCount, provided the cycle
\* that recorded the previous call is still the room's live cycle (not past
\* its TTL, not dropped by resetCycle).
C3_DebouncedKeepsLiveCycle ==
    (ret.op = "registerInboundExternal" /\ ret.short /\ ret.sameCycle) => ret.kept

\* C3 witness: a debounced call left a used turn budget as it was.
C3_Witness ==
    /\ ret.op = "registerInboundExternal"
    /\ ret.short
    /\ ret.sameCycle
    /\ ret.kept
    /\ cycles[Room].turnsUsed > 0
    /\ cycles[Room].dispatchCount > 0

\* C4: registerInboundExternal more than 5000 ms after the room's previous
\* one, or with no previous one in the cycle, leaves turnsUsed and
\* dispatchCount at 0, and the tryConsumeTurn that follows it succeeds.
C4_ResetAfterGap ==
    /\ []((ret.op = "registerInboundExternal" /\ (ret.gapExceeded \/ ret.noPrevious)) =>
            /\ cycles[Room].turnsUsed = 0
            /\ cycles[Room].dispatchCount = 0)
    /\ [][(/\ ret.op = "registerInboundExternal"
           /\ (ret.gapExceeded \/ ret.noPrevious)
           /\ ret'.op = "tryConsumeTurn") => ret'.ok]_vars

\* C4 witness: the turn budget was exhausted when a call after the gap reset it.
C4_Witness ==
    /\ ret.op = "registerInboundExternal"
    /\ ret.gapExceeded
    /\ ~ret.noPrevious
    /\ ret.wasExhausted
    /\ cycles[Room].turnsUsed = 0

(***************************************************************************)
(* Claims about the message cache (checked under SpecCache).               *)
(***************************************************************************)

\* C2: cleanup never removes a message whose timestamp is greater than the
\* minimum lastReadTs across the given member agents.
C2_CleanupKeepsUnread ==
    ret.op = "cleanup" =>
        \A t \in ret.removedTs :
            \A a \in ret.memberAgents :
                a \in DOMAIN watermarks /\ t <= watermarks[a].lastReadTs

\* C5: after markAsRead(room, agent, m.id, m.ts) for the message m at
\* position k of the log, getUnreadMessages(room, agent) is exactly the
\* messages after position k that the agent did not write: it holds neither
\* m nor a message appended before m, and every other message after m.
C5_UnreadAfterMark ==
    (ret.op = "markAsRead" /\ ret.k > 0) =>
        getUnreadMessages(ret.agentId) =
            SelectSeq(SubSeq(log, ret.k + 1, Len(log)),
                      LAMBDA m : m.sourceAgent # ret.agentId)

\* C6: getUnreadMessages(room, agent) never returns a message whose
\* sourceAgent is that agent, whatever the log and the watermarks.
C6_NoOwnMessages ==
    \A a \in Agents :
        \A i \in 1..Len(getUnreadMessages(a)) :
            getUnreadMessages(a)[i].sourceAgent # a

\* C6 witness: an agent with a watermark has a message of its own after it.
C6_Witness ==
    \E a \in Agents :
        /\ a \in DOMAIN watermarks
        /\ \E i \in 1..Len(log) : i > startIdx(a) /\ log[i].sourceAgent = a

\* C7: readAllMessages returns the appended messages in append order (a
\* message just appended is the last one) and no two of them share an id.
C7_AppendOrderUniqueIds ==
    /\ \A i, j \in 1..Len(readAllMessages) :
            i # j => readAllMessages[i].id # readAllMessages[j].id
    /\ (ret.op = "appendMessage" /\ ~ret.isNull /\ ret.ioOk) =>
            /\ Len(readAllMessages) = ret.preLen + 1
            /\ readAllMessages[Len(readAllMessages)].id = ret.id

InjectionMarkers == { <<"[UNTRUSTED", " DATA">>, <<"<relevant-memories>">> }

C9_StatusPrecedence ==
    /\ deriveTaskStatus(EmptyMap) = "create"
    /\ (ret.op = "updateTask" /\ ret.ok) =>
        LET statuses == {ret.task.slots[a].status : a \in DOMAIN ret.task.slots}
        IN  /\ ret.task.status =
                    IF statuses = {} THEN "create"
                    ELSE IF statuses \subseteq {"done", "review_ok"} THEN "done"
                    ELSE IF "blocked" \in statuses THEN "blocked"
                    ELSE IF "in_progress" \in statuses THEN "in_progress"
                    ELSE "ack"
            /\ ret.task.status = "done" => statuses \subseteq {"done", "review_ok"}

\* C9 witness: an update leaves one slot blocked and another in_progress,
\* and the task blocked.
C9_Witness ==
    /\ ret.op = "updateTask"
    /\ ret.ok
    /\ \E a, b \in DOMAIN ret.task.slots :
            /\ ret.task.slots[a].status = "blocked"
            /\ ret.task.slots[b].status = "in_progress"
    /\ ret.task.status = "blocked"

\* C10: when updateTask's recomputed status is terminal (and the writes
\* succeed), the task is in the history set with closedAt set, is in the
\* active set no more, is in the board index no more, and the result says
\* closed; when it is not terminal the task stays in the active set and
\* the result says not closed.
C10_TerminalArchives ==
    (ret.op = "updateTask" /\ ret.ok /\ ioFailures = 0) =>
        IF isTerminal(ret.task.status)
        THEN /\ ret.closed
             /\ ret.task.closedAt > 0
             /\ \E h \in DOMAIN historyFiles : historyFiles[h] = ret.task
             /\ \A f \in DOMAIN activeFiles : activeFiles[f].taskId # ret.task.taskId
             /\ ret.task.taskId \notin DOMAIN board
        ELSE /\ ~ret.closed
             /\ \E f \in DOMAIN activeFiles : activeFiles[f] = ret.task

\* C11: updateTask by actor A creates or changes only A's slot; the slot of
\* every other actor is as it was, so two actors' updates leave two slots.
C11_OnlyOwnSlot ==
    [][(/\ ret'.op = "updateTask"
        /\ ret'.ok
        /\ clock' = clock
        /\ taskFilePath(ret'.taskId) \in DOMAIN activeFiles)
       => LET pre == activeFiles[taskFilePath(ret'.taskId)].slots
              post == ret'.task.slots
          IN  /\ DOMAIN post = DOMAIN pre \cup {ret'.actor}
              /\ \A b \in DOMAIN pre \ {ret'.actor} : post[b] = pre[b]]_vars

\* C11 witness: an update by one actor returned a task that still holds the
\* different slot another actor wrote before.
C11_Witness ==
    /\ ret.op = "updateTask"
    /\ ret.ok
    /\ \E b \in DOMAIN ret.task.slots :
            /\ b # ret.actor
            /\ ret.task.slots[b].status # ret.task.slots[ret.actor].status

C19_OneRecordPerTask ==
    /\ \A f \in DOMAIN activeFiles : f = taskFilePath(activeFiles[f].taskId)
    /\ \A f1, f2 \in DOMAIN activeFiles :
            activeFiles[f1].taskId = activeFiles[f2].taskId => f1 = f2

\* C19 witness: two tasks are active, one of them updated after the clock
\* moved on, and a createTask for one of them has just been refused.
C19_Witness ==
    /\ Cardinality(DOMAIN activeFiles) = 2
    /\ clock > TickMs
    /\ \E f \in DOMAIN activeFiles : activeFiles[f].updatedAt > activeFiles[f].createdAt
    /\ ret.op = "createTask"
    /\ "taskId" \in DOMAIN ret
    /\ taskFilePath(ret.taskId) \in DOMAIN activeFiles

\* C20: createTask and updateTask never throw; every call returns ok=true
\* or ok=false with reason invalid, max_active_reached, already_exists,
\* not_found or lock_failed, and a call that returns ok=false leaves the
\* active set, the history set and the board index unchanged.
C20_NeverThrows ==
    /\ [](ret.op # "throw")
    /\ [](ret.op \in {"createTask", "updateTask"} =>
            \/ ret.ok
            \/ ret.reason \in {"invalid", "max_active_reached", "already_exists",
                               "not_found", "lock_failed"})
    /\ [][(ret'.op \in {"createTask", "updateTask"} /\ clock' = clock /\ ~ret'.ok)
          => UNCHANGED <<activeFiles, historyFiles, board>>]_vars

\* C15: a relay payload is delivered to a session only if the resolved
\* session key is the target room's group session and, when it names an
\* agent, names the target agent; for any other key resolveAgentSessionKey
\* returns the empty key and nothing is delivered.
C15_DeliveredOnlyToRoomSession ==
    (ret.op = "enqueueRoomEventToAgent" /\ ret.route # {}) =>
        LET route == CHOOSE r \in ret.route : TRUE
            valid == /\ route.kind = "group"
                     /\ route.peer = ret.roomId
                     /\ route.agent # "" => route.agent = ret.agentId
        IN  \/ valid
            \/ /\ ret.sessionKey = << >>
               /\ ~ret.delivered
               /\ sessionKeyOf(route) \notin enqueued

\* C16: resolveForwardTargets answers the mentioned agents in mentions-only
\* mode, every member in all-members mode, and in mentions-or-all mode the
\* mentioned agents if there are any and else every member; without
\* repeats, in the order of first occurrence, and without the source agent
\* unless includeSourceAgent is set.
C16_ForwardTargets ==
    ret.op = "resolveForwardTargets" =>
        LET room == ret.room
            base == IF room.forwardMode = "mentions-only" THEN ret.mentionedAgents
                    ELSE IF room.forwardMode = "all-members" THEN room.memberAgents
                    ELSE IF ret.mentionedAgents # << >> THEN ret.mentionedAgents
                    ELSE room.memberAgents
            excluded == IF room.includeSourceAgent THEN {} ELSE {ret.sourceAgent}
            first(a) == CHOOSE k \in 1..Len(base) :
                            base[k] = a /\ \A m \in 1..(k - 1) : base[m] # a
            targets == ret.targets
        IN  /\ {targets[i] : i \in 1..Len(targets)}
                    = {base[i] : i \in 1..Len(base)} \ excluded
            /\ \A i, j \in 1..Len(targets) : i # j => targets[i] # targets[j]
            /\ \A i, j \in 1..Len(targets) : i < j => first(targets[i]) < first(targets[j])

\* C16 witness: in mentions-or-all mode three mentions with a repeat, the
\* source agent among them and not to be included, came back as the one
\* other agent.
C16_Witness ==
    /\ ret.op = "resolveForwardTargets"
    /\ ret.room.forwardMode = "mentions-or-all"
    /\ ~ret.room.includeSourceAgent
    /\ ret.mentionedAgents = <<"builder", "main", "builder">>
    /\ ret.sourceAgent = "main"
    /\ ret.targets = <<"builder">>

\* C17: at most one caller at a time executes its fn under withFileLock,
\* in every interleaving of the contending processes, those in which a
\* waiter removes a marker older than the staleness threshold included
\* (here even leaving aside the runs in which a live caller has held the
\* marker for longer than the threshold).
C17_MutualExclusion ==
    ~overran => Cardinality({p \in LockProcs : procs[p].pc = "fn"}) <= 1

C21_ActiveConflict ==
    [][(/\ ret'.op = "applyTaskSignal"
        /\ ret'.taskId # "" /\ ret'.status # ""
        /\ ret'.roomId \in DOMAIN activeTaskByRoom
        /\ activeTaskByRoom[ret'.roomId].taskId # ret'.taskId)
       => (/\ ~ret'.ok
           /\ ret'.reason = "active_conflict"
           /\ ret'.activeTaskId = activeTaskByRoom[ret'.roomId].taskId
           /\ activeTaskByRoom' = activeTaskByRoom
           /\ closedCountByRoom' = closedCountByRoom)]_vars

\* C21 witness: a signal for T-261 was refused while T-260, already
\* updated once, is the room's active task.
C21_Witness ==
    /\ ret.op = "applyTaskSignal"
    /\ ~ret.ok
    /\ ret.reason = "active_conflict"
    /\ ret.taskId = "T-261"
    /\ activeTaskByRoom[ret.roomId].taskId = "T-260"
    /\ Len(activeTaskByRoom[ret.roomId].history) = 2

\* C22: getTask and listActiveTasks return records that have slots: a
\* stored record without slots comes back with exactly one slot, keyed by
\* its assignee (or owner) and carrying the legacy status, and with a
\* globalHistory built from its history; a record that has slots comes
\* back unchanged, so migrating twice equals migrating once.
C22_MigratedOneSlot ==
    /\ (ret.op = "getTask" /\ ret.raw # {}) =>
        LET raw == CHOOSE r \in ret.raw : TRUE
            task == CHOOSE t \in ret.task : TRUE
        IN  /\ ret.task # {}
            /\ "slots" \in DOMAIN task
            /\ migrateLegacyTask(task) = task
            /\ IF "slots" \in DOMAIN raw THEN task = raw
               ELSE /\ Cardinality(DOMAIN task.slots) = 1
                    /\ DOMAIN task.slots \subseteq {raw.assignee, raw.owner} \ {""}
                    /\ \A a \in DOMAIN task.slots : task.slots[a].status = raw.status
                    /\ Len(task.globalHistory) = Len(raw.history)
                    /\ \A i \in 1..Len(raw.history) :
                            task.globalHistory[i].status = raw.history[i].status
    /\ ret.op = "listActiveTasks" => \A t \in ret.tasks : "slots" \in DOMAIN t

\* C22 as the code has it: a stored record without slots comes back with
\* the slot of its assignee, or of its owner when it has no assignee,
\* carrying the legacy status (ack when the record has none), and with no
\* slot at all when it has neither; its globalHistory has the entries of
\* its history, an entry without actor given the assignee (or unknown); a
\* record that has slots comes back unchanged, migration being idempotent.
C22_MigratedSlots ==
    /\ (ret.op = "getTask" /\ ret.raw # {}) =>
        LET raw == CHOOSE r \in ret.raw : TRUE
            task == CHOOSE t \in ret.task : TRUE
            assignee == IF raw.assignee # "" THEN raw.assignee ELSE raw.owner
        IN  /\ ret.task # {}
            /\ "slots" \in DOMAIN task
            /\ migrateLegacyTask(task) = task
            /\ IF "slots" \in DOMAIN raw THEN task = raw
               ELSE /\ DOMAIN task.slots = {assignee} \ {""}
                    /\ \A a \in DOMAIN task.slots :
                            /\ task.slots[a].status = (IF raw.status = "" THEN "ack" ELSE raw.status)
                            /\ Len(task.slots[a].history) = Len(raw.history)
                    /\ Len(task.globalHistory) = Len(raw.history)
                    /\ \A i \in 1..Len(raw.history) :
                            /\ task.globalHistory[i].status = raw.history[i].status
                            /\ task.globalHistory[i].actor =
                                    (IF raw.history[i].actor # "" THEN raw.history[i].actor
                                     ELSE IF assignee # "" THEN assignee ELSE "unknown")
                    /\ \A k \in DOMAIN raw : task[k] = raw[k]
    /\ ret.op = "listActiveTasks" => \A t \in ret.tasks : "slots" \in DOMAIN t

\* C22 witness: a legacy record owned by researcher, without assignee,
\* was read back with researcher's slot while a record with slots is on
\* file beside it.
C22_Witness ==
    /\ ret.op = "getTask"
    /\ \E raw \in ret.raw, task \in ret.task :
        /\ "slots" \notin DOMAIN raw
        /\ raw.assignee = "" /\ raw.owner = "researcher"
        /\ DOMAIN task.slots = {"researcher"}
        /\ Len(task.globalHistory) = 2
    /\ \E f \in DOMAIN activeFiles : "slots" \in DOMAIN activeFiles[f]

\* C23: for every raw room configuration the normalized limits are inside
\* their ranges: maxTurnsPerCycle in 1..20, cycleTtlSeconds in 30..86400,
\* outgoingEchoWindowSeconds in 10..3600, autopilot.maxDispatchPerCycle
\* null or in 1..20.
C23_LimitsInRange ==
    ret.op = "normalizeRoomConfig" =>
        LET within(v, min, max) ==
                /\ v.kind = "number"
                /\ v.tenths % 10 = 0
                /\ min * 10 <= v.tenths /\ v.tenths <= max * 10
        IN  /\ within(ret.maxTurnsPerCycle, 1, 20)
            /\ within(ret.cycleTtlSeconds, 30, 86400)
            /\ within(ret.outgoingEchoWindowSeconds, 10, 3600)
            /\ \/ ret.maxDispatchPerCycle.kind = "null"
               \/ within(ret.maxDispatchPerCycle, 1, 20)

\* C24: a message appended while cleanup runs on the room is not lost:
\* when the cleanup has rewritten the log, every message that was in the
\* log just before the rewrite and that cleanup's retention rule keeps
\* (its ts above the cleanup's keepThreshold) is in the log.
C24_AppendSurvivesCleanup ==
    [][(compacting # {} /\ compacting' = {})
       => \A i \in 1..Len(log) :
            log[i].ts > (CHOOSE c \in compacting : TRUE).keepThreshold
                => log[i] \in Messages(log')]_vars

\* C28: a record returned by appendMessage is in the room's log afterwards,
\* as its last line; when the lock is not acquired or the append fails,
\* appendMessage does not return the record as appended.
C28_ReturnedIsLogged ==
    (ret.op = "appendMessage" /\ ~ret.isNull) =>
        /\ Len(readAllMessages) = ret.preLen + 1
        /\ readAllMessages[Len(readAllMessages)].id = ret.id

(***************************************************************************)
(* Claims about the inbound hook (checked under SpecInbound).              *)
(***************************************************************************)

\* C25: an inbound message attributed to an agent (it matched a recorded
\* outgoing message, or it came from an agent's mapped sender id) is not
\* registered as an external message: the room's turnsUsed and dispatchCount
\* are what they were before the message.
C25_AgentMessageKeepsCounters ==
    (ret.op = "messageReceived" /\ (ret.echoMatched \/ ret.mappedSourceAgent # ""))
        => /\ ~ret.registered
           /\ ret.had => /\ cycles[Room].turnsUsed = ret.preTurnsUsed
                         /\ cycles[Room].dispatchCount = ret.preDispatchCount

(***************************************************************************)
(* Claims about the relay loop (checked under SpecForward).                *)
(***************************************************************************)

\* C26: a forward target whose route was rejected (empty session key, nothing
\* enqueued) keeps its watermark as it was, so its unread messages stay
\* unread.
C26_WatermarkOnlyOnDelivery ==
    (ret.op = "relayToTarget" /\ ~ret.delivered)
        => /\ ret.preWatermark = (IF ret.targetAgent \in DOMAIN watermarks
                                  THEN {watermarks[ret.targetAgent]} ELSE {})
           /\ Len(getUnreadMessages(ret.targetAgent)) = ret.preUnread

(***************************************************************************)
(* Further claims about the task board (checked under SpecTask).           *)
(***************************************************************************)

\* C27: a terminal updateTask does not lose the task: when the call reports
\* ok and closed, the closed record is in the history set (or the task is
\* still in the active set).
C27_ClosedTaskIsKept ==
    (ret.op = "updateTask" /\ ret.ok /\ ret.closed)
        => \/ taskFilePath(ret.taskId) \in DOMAIN activeFiles
           \/ \E f \in DOMAIN historyFiles : historyFiles[f] = ret.task

\* C29: every task in the active set stores the status derived from its
\* slots, which is create when it has no slots.
C29_StoredStatusIsDerived ==
    \A f \in DOMAIN activeFiles :
        activeFiles[f].status = deriveTaskStatus(activeFiles[f].slots)

\* C30: every updateTask that is applied moves the actor's slot along the
\* state machine of a slot ("" is no slot yet): (none) -> ack -> in_progress,
\* blocked <-> in_progress, from either of these to done or review_ok, and
\* rework from a terminal status back to a non-terminal one (signalling the
\* status a slot already has is no move); no call moves a slot along any
\* other transition.
C30_SlotStateMachine ==
    [][(ret'.op = "updateTask" /\ ret'.ok /\ clock' = clock)
        => LET moves ==
                { <<"", "ack">>, <<"ack", "in_progress">>,
                  <<"in_progress", "blocked">>, <<"blocked", "in_progress">>,
                  <<"in_progress", "done">>, <<"in_progress", "review_ok">>,
                  <<"blocked", "done">>, <<"blocked", "review_ok">> }
                    \cup ({"done", "review_ok"} \X {"ack", "in_progress", "blocked"})
                    \cup { <<st, st>> :
                            st \in {"ack", "in_progress", "blocked", "done", "review_ok"} }
               old == activeFiles[taskFilePath(ret'.taskId)].slots
               from == IF ret'.actor \in DOMAIN old
                       THEN old[ret'.actor].status ELSE ""
           IN  <<from, ret'.task.slots[ret'.actor].status>> \in moves]_vars

(***************************************************************************)
(* Further claims about the cycle/rate limiter (checked under SpecCycle).  *)
(***************************************************************************)

\* C31: a call that accesses the room's cycle (tryConsumeTurn,
\* tryConsumeDispatch) works on a fresh cycle (counters 0 before the call's
\* own increment, createdAt = now) when the room had none or the stored one
\* was older than the TTL; otherwise on the stored cycle, its counters and
\* createdAt as they were and maxTurns, maxDispatch and ttl those of the
\* current config.
C31_GetCycle ==
    [][(ret'.op \in {"tryConsumeTurn", "tryConsumeDispatch"} /\ clock' = clock)
        => LET expired == \/ Room \notin DOMAIN cycles
                          \/ clock - cycles[Room].createdAt
                                > roomConfig.cycleTtlSeconds * 1000
               c == cycles'[Room]
               dT == IF ret'.op = "tryConsumeTurn" /\ ret'.ok THEN 1 ELSE 0
               dD == IF ret'.op = "tryConsumeDispatch" /\ ret'.ok THEN 1 ELSE 0
           IN  /\ c.maxTurns = roomConfig.maxTurnsPerCycle
               /\ c.maxDispatch \in (IF roomConfig.maxDispatchPerCycle = {}
                                     THEN {roomConfig.maxTurnsPerCycle}
                                     ELSE roomConfig.maxDispatchPerCycle)
               /\ c.ttlMs = roomConfig.cycleTtlSeconds * 1000
               /\ IF expired
                  THEN /\ c.createdAt = clock
                       /\ c.turnsUsed = dT
                       /\ c.dispatchCount = dD
                  ELSE /\ c.createdAt = cycles[Room].createdAt
                       /\ c.turnsUsed = cycles[Room].turnsUsed + dT
                       /\ c.dispatchCount = cycles[Room].dispatchCount + dD]_vars

\* C31 witness: a tryConsumeTurn has worked on a stored cycle that had
\* turns used, after the room's configuration changed mid-cycle.
C31_Witness ==
    /\ ret.op = "tryConsumeTurn"
    /\ ret.preTurnsUsed > 0
    /\ ~cfgFixed
    /\ cycles[Room].createdAt < clock

(***************************************************************************)
(* Further claims about the inbound hook (checked under SpecInbound).      *)
(***************************************************************************)

\* C32: when the lookup of messageReceived (detectOutgoingEcho) returns an
\* agent id, the list held an outgoing record of the same content by that
\* agent, recorded no longer than the window before now, and the lookup has
\* removed it, so that no later lookup matches it again.
C32_EchoOnlyOfSameContent ==
    [][(ret'.op = "messageReceived" /\ ret'.echoedAgent # "" /\ ret' # ret)
        => \E i \in 1..Len(outgoingByRoom) :
            /\ outgoingByRoom[i].text = ret'.content
            /\ outgoingByRoom[i].agentId = ret'.echoedAgent
            /\ clock - outgoingByRoom[i].ts <= EchoWindowSeconds * 1000
            /\ Len(outgoingByRoom') < Len(outgoingByRoom)]_vars

(***************************************************************************)
(* Claims about the history set of the task board.                         *)
(***************************************************************************)

\* C33: no step modifies or removes a record of the history set, and every
\* terminal close whose record was written adds a record to it: the history
\* set has one record more than before the close.
C33_HistoryImmutable ==
    [][/\ \A f \in DOMAIN historyFiles :
            f \in DOMAIN historyFiles' /\ historyFiles'[f] = historyFiles[f]
       /\ (/\ ret'.op = "updateTask" /\ ret'.ok /\ ret'.closed /\ ret' # ret
           /\ \E f \in DOMAIN historyFiles' : historyFiles'[f] = ret'.task)
            => Cardinality(DOMAIN historyFiles') = Cardinality(DOMAIN historyFiles) + 1]_vars

(***************************************************************************)
(* Further claims about the message cache (checked under SpecCache).       *)
(***************************************************************************)

\* C34: for an agent whose watermark has no lastReadId, or whose lastReadId
\* is not the id of a message of the log, getUnreadMessages returns exactly
\* the messages not authored by the agent whose timestamp is greater than
\* lastReadTs (every message not authored by the agent when it has no
\* watermark).
C34_UnreadByTimestamp ==
    \A agentId \in Agents :
        (\A i \in 1..Len(log) : log[i].id # lastReadIdOf(agentId))
            => getUnreadMessages(agentId)
                = SelectSeq(log, LAMBDA m : /\ m.ts > lastReadTsOf(agentId)
                                            /\ m.sourceAgent # agentId)

\* C35: a cleanup leaves the log as it was when the log has fewer messages
\* than the compaction threshold, when memberAgents is empty, or when a
\* member agent has no watermark.
C35_CleanupNoOp ==
    [][(/\ ret'.op = "cleanup"
        /\ clock' = clock
        /\ \/ Len(log) < CompactThreshold
           \/ ret'.memberAgents = {}
           \/ \E a \in ret'.memberAgents : a \notin DOMAIN watermarks)
        => log' = log]_vars

\* C35 witness: a cleanup has left a log of threshold length as it was, for
\* members of whom one has no watermark and another has read a message of
\* the log.
C35_Witness ==
    /\ ret.op = "cleanup"
    /\ Len(log) >= CompactThreshold
    /\ ret.removedTs = {}
    /\ \E a, b \in ret.memberAgents :
        /\ a \notin DOMAIN watermarks
        /\ b \in DOMAIN watermarks
        /\ \E i \in 1..Len(log) : log[i].ts <= watermarks[b].lastReadTs

(***************************************************************************)
(* Claims about the context block (checked under SpecContext).             *)
(***************************************************************************)

\* C36: buildContextBlock returns the empty string iff the agent has no
\* unread messages; otherwise the messages of the block are a suffix of the
\* unread sequence (its newest end), no more than maxMessages, their
\* contents no longer than maxChars in total, and the skipped count of the
\* header is the unread count minus the number of messages included.
C36_ContextBlock ==
    ret.op = "buildContextBlock" =>
        LET unread == getUnreadMessages(ret.agentId)
            included == ret.selected
            maxMessages == IF ret.options.maxMessages # 0 THEN ret.options.maxMessages
                           ELSE DefaultMaxMessages
            maxChars == IF ret.options.maxChars # 0 THEN ret.options.maxChars
                        ELSE DefaultMaxChars
            skipped == Len(unread) - Len(included)
        IN  /\ (ret.block = << >>) <=> (Len(unread) = 0)
            /\ Len(unread) > 0 =>
                /\ included = SubSeq(unread, Len(unread) - Len(included) + 1, Len(unread))
                /\ Len(included) <= maxMessages
                /\ contentLength(included) <= maxChars
                /\ Len(ret.block) = Len(included) + 2
                /\ \A i \in 1..Len(included) : ret.block[i + 1].content = included[i].content
                /\ ret.block[1].unread = Len(unread)
                /\ ret.block[1].skipped = (IF skipped > 0 THEN {skipped} ELSE {})

\* C36 witness: a block has been built for an agent with two unread
\* messages under a budget that holds one of them: the newer one is in the
\* block and the header reports one skipped.
C36_Witness ==
    /\ ret.op = "buildContextBlock"
    /\ Len(getUnreadMessages(ret.agentId)) = 2
    /\ ret.options.maxMessages = 0
    /\ Len(ret.selected) = 1
    /\ ret.block[1].skipped = {1}

(***************************************************************************)
(* Claims about the slots of a task (checked under SpecTask).              *)
(***************************************************************************)

C39_BoardMirrorsActive ==
    (ret.op \in {"createTask", "updateTask"} /\ ioFailures = 0)
        => /\ DOMAIN board = {activeFiles[f].taskId : f \in DOMAIN activeFiles}
           /\ \A f \in DOMAIN activeFiles :
                /\ activeFiles[f].taskId \in DOMAIN board
                /\ board[activeFiles[f].taskId].status = activeFiles[f].status

(***************************************************************************)
(* Claims about the fan-out of an inbound message (checked under           *)
(* SpecFanOut).                                                            *)
(***************************************************************************)

====
